---- MODULE Spec2Model ----
(***************************************************************************)
(* GrowHFT: the money manager (money_management.py) and the scanner loop   *)
(* of the trading engine (engine.py).                                      *)
(*                                                                         *)
(* Prices, ATR values and capital are integers of one money unit.  The    *)
(* percentages of config.py are kept exact by comparing cross-multiplied   *)
(* integers; a trailing stop is stored in hundredths of the money unit     *)
(* (entry_price * 1 / 100 is not an integer).  Floating-point rounding is  *)
(* not modelled.                                                           *)
(***************************************************************************)
EXTENDS Integers, Sequences, FiniteSets, TLC

\* ------------------------------------------------------------------ bounds
MaxWatch == 2          \* longest watchlist handed to start_engine
MaxTicks == 2          \* scan ticks of one behaviour
MaxDate == 1           \* calendar dates are 0 .. MaxDate
MaxOpens == 2          \* positions a caller of the money manager opens
InitialCapital == 40   \* initial_capital given to the engine
MaxActive == 4         \* longest list of active strategies handed to the vote
MaxAppends == 3        \* events appended to a signal log that is nearly full
MaxLogged == 3         \* events in a signal log that is queried
MaxLimit == 4          \* largest limit handed to get_signal_log
MaxRows == 3           \* active rows of the strategies table
MaxKeywords == 2       \* keywords of name_map a strategy name contains
MaxSizeCapital == 60   \* largest capital, the example's apart, a size is computed for
MaxLevel == 3          \* prices and averages of a strategy are 1 .. MaxLevel
SuperTrendPeriod == 1  \* period of the SuperTrend (bars before the first ATR)
MaxBars == 4           \* longest window the SuperTrend is computed on
MaxEngines == 3        \* engines start_engine constructs in one run of the process
ExampleCapital == 1000 \* capital of the caller that trails a position through 100, 110, 108.5
SmallCapital == 10     \* an initial_capital that buys one share, not two

Symbols == {"X", "Y"}
Prices == {8, 10, 12}  \* close[-1] of a fetched window
Atrs == {0, 1}         \* ATR[-1] of a fetched window (0: a flat window)
Quantities == {1, 2}   \* quantities a caller of the money manager opens with
\* the windows the scanner's fetches return: (close[-1], ATR[-1])
Windows ==
    {[price |-> 8, atr |-> 1], [price |-> 10, atr |-> 1],
     [price |-> 12, atr |-> 1], [price |-> 10, atr |-> 0]}
\* close[-1] of the window stop() fetches for a symbol; 0: the fetch failed
StopFetches == {0, 10}

\* ------------------------------------------------------- program constants
MAX_POSITION_SIZE_PERCENT == 2
MAX_DAILY_LOSS_PERCENT == 5
MAX_TRADES_PER_DAY == 50
STOP_LOSS_PERMILLE == 15       \* STOP_LOSS_PERCENT = 1.5
TRAILING_STOP_PERCENT == 1
RSI_OVERBOUGHT == 70
RSI_OVERSOLD == 30
max_signal_log_size == 500

\* Python's None in an Optional[float] field of a Position
NoneVal == -1

VARIABLES
    mm,           \* the MoneyManager object
    today,        \* datetime.now().date()
    marketHours,  \* what is_market_hours() returns now
    is_running,   \* TradingEngine.is_running
    symbols,      \* TradingEngine.symbols, the watchlist
    signal_log,   \* TradingEngine.signal_log
    loop_count,   \* TradingEngine.loop_count
    pc,           \* where the scanner task (or the API caller) stands
    idx,          \* the per-symbol task of the tick that runs next
    task,         \* the per-symbol task that holds the event loop, if any
    lastExit,     \* history: the last should_exit call and what it returned
    lastCT,       \* history: the last can_trade call and what it returned
    lastTask,     \* history: what the last per-symbol task did
    tick,         \* history: per-symbol counts of the current tick
    day,          \* history: what was realized on the current date
    openDelta,    \* history: per symbol, the capital change of its last open
    roundTrip,    \* history: per closed trade, capital change of open + close
    closing_orders, \* history: the closing orders handed to execute_trade
    db_up,        \* the database answers (else add, commit and query raise)
    call,         \* a function called alone: its arguments
    ret,          \* a function called alone: what it returned
    feed,         \* the windows fetch_market_data can come back with
    trading_engine, \* main.py: the global trading_engine, where requests are followed
    engine_task,  \* main.py: the global engine_task
    engines       \* the engines start_engine constructed, each with its task

vars == <<mm, today, marketHours, is_running, symbols, signal_log,
          loop_count, pc, idx, task, lastExit, lastCT, lastTask, tick, day,
          openDelta, roundTrip, closing_orders, db_up, call, ret, feed,
          trading_engine, engine_task, engines>>

\* --------------------------------------------------------------- helpers
Max(a, b) == IF a >= b THEN a ELSE b
Min(a, b) == IF a <= b THEN a ELSE b

\* Python's int(a / b) for b > 0: truncation toward zero
Trunc(a, b) == IF a >= 0 THEN a \div b ELSE -((-a) \div b)

\* truthiness of an Optional[float]: None and 0.0 are both falsy
Truthy(x) == x # NoneVal /\ x # 0

\* dict[str, Position], kept as the sequence of its values in insertion order
DictHas(d, s) == \E i \in 1..Len(d) : d[i].symbol = s
DictIdx(d, s) == CHOOSE i \in 1..Len(d) : d[i].symbol = s
DictGet(d, s) == d[DictIdx(d, s)]
DictSet(d, p) ==
    IF DictHas(d, p.symbol) THEN [d EXCEPT ![DictIdx(d, p.symbol)] = p]
    ELSE Append(d, p)
DictDel(d, s) == SelectSeq(d, LAMBDA p : p.symbol # s)
DictKeys(d) == [i \in 1..Len(d) |-> d[i].symbol]

NoPosition ==
    [symbol |-> "", side |-> "", quantity |-> 0, entry_price |-> 0,
     stop_loss |-> 0, take_profit |-> 0, trailing_stop |-> NoneVal,
     highest_price |-> NoneVal, lowest_price |-> NoneVal]

\* ---------------------------------------------------------- MoneyManager
NewMoneyManager(capital, date) ==
    [initial_capital |-> capital, current_capital |-> capital,
     positions |-> <<>>, daily_pnl |-> 0, daily_trades |-> 0,
     trade_history |-> <<>>, equity_curve |-> <<capital>>,
     last_reset_date |-> date]

reset_daily_stats(m, date) ==
    IF date > m.last_reset_date
    THEN [m EXCEPT !.daily_pnl = 0, !.daily_trades = 0, !.last_reset_date = date]
    ELSE m

can_trade_le(m, date) ==
    LET r == reset_daily_stats(m, date) IN
    IF r.daily_pnl * 100 <= -(r.initial_capital * MAX_DAILY_LOSS_PERCENT)
    THEN [mm |-> r, allowed |-> FALSE, reason |-> "DAILY_LOSS"]
    ELSE IF r.daily_trades >= MAX_TRADES_PER_DAY
    THEN [mm |-> r, allowed |-> FALSE, reason |-> "MAX_TRADES"]
    ELSE [mm |-> r, allowed |-> TRUE, reason |-> "OK"]

can_trade_always(m, date) ==
    [mm |-> reset_daily_stats(m, date), allowed |-> TRUE, reason |-> "OK"]

\* can_trade with the daily trades compared by >
can_trade_trades_gt(m, date) ==
    LET r == reset_daily_stats(m, date) IN
    IF r.daily_pnl * 100 < -(r.initial_capital * MAX_DAILY_LOSS_PERCENT)
    THEN [mm |-> r, allowed |-> FALSE, reason |-> "DAILY_LOSS"]
    ELSE IF r.daily_trades > MAX_TRADES_PER_DAY
    THEN [mm |-> r, allowed |-> FALSE, reason |-> "MAX_TRADES"]
    ELSE [mm |-> r, allowed |-> TRUE, reason |-> "OK"]

\* daily_pnl < -(initial_capital * (MAX_DAILY_LOSS_PERCENT / 100)), times 100
can_trade(m, date) ==
    LET r == reset_daily_stats(m, date) IN
    IF r.daily_pnl * 100 < -(r.initial_capital * MAX_DAILY_LOSS_PERCENT)
    THEN [mm |-> r, allowed |-> FALSE, reason |-> "DAILY_LOSS"]
    ELSE IF r.daily_trades >= MAX_TRADES_PER_DAY
    THEN [mm |-> r, allowed |-> FALSE, reason |-> "MAX_TRADES"]
    ELSE [mm |-> r, allowed |-> TRUE, reason |-> "OK"]

\* risk_amount = capital * 2 / 100; stop_distance = 2 * atr, or
\* price * 15 / 1000 when that is <= 0; the quotients are cross-multiplied
calculate_position_size_uncapped(m, price, atr) ==
    LET capital == m.current_capital
        shares ==
            IF atr * 2 > 0
            THEN Trunc(capital * MAX_POSITION_SIZE_PERCENT, 100 * (atr * 2))
            ELSE Trunc(capital * MAX_POSITION_SIZE_PERCENT * 1000,
                       100 * (price * STOP_LOSS_PERMILLE))
    IN Max(1, shares)

calculate_position_size(m, price, atr) ==
    LET capital == m.current_capital
        shares ==
            IF atr * 2 > 0
            THEN Trunc(capital * MAX_POSITION_SIZE_PERCENT, 100 * (atr * 2))
            ELSE IF price * STOP_LOSS_PERMILLE > 0
            THEN Trunc(capital * MAX_POSITION_SIZE_PERCENT * 1000,
                       100 * (price * STOP_LOSS_PERMILLE))
            ELSE Trunc(capital * MAX_POSITION_SIZE_PERCENT, 100 * price)
        max_shares == Trunc(capital, price)
    IN Min(Max(1, shares), max_shares)

calculate_stop_loss(entry_price, side, atr) ==
    IF side = "BUY" THEN entry_price - atr * 2 ELSE entry_price + atr * 2

calculate_take_profit(entry_price, side, atr) ==
    IF side = "BUY" THEN entry_price + atr * 4 ELSE entry_price - atr * 4

open_position(m, symbol, side, quantity, price, atr) ==
    LET position ==
            [symbol |-> symbol, side |-> side, quantity |-> quantity,
             entry_price |-> price,
             stop_loss |-> calculate_stop_loss(price, side, atr),
             take_profit |-> calculate_take_profit(price, side, atr),
             trailing_stop |-> NoneVal,
             highest_price |-> IF side = "BUY" THEN price ELSE NoneVal,
             lowest_price |-> IF side = "SELL" THEN price ELSE NoneVal]
    IN [m EXCEPT !.positions = DictSet(m.positions, position),
                 !.daily_trades = m.daily_trades + 1,
                 !.current_capital = m.current_capital - quantity * price]

\* the Position after update_trailing_stop; trailing_stop in hundredths
trail_position_loose(p, current_price) ==
    LET dist100 == p.entry_price * TRAILING_STOP_PERCENT IN
    IF p.side = "BUY"
    THEN [p EXCEPT !.highest_price = current_price,
                   !.trailing_stop = current_price * 100 - dist100]
    ELSE [p EXCEPT !.lowest_price = current_price,
                   !.trailing_stop = current_price * 100 + dist100]

\* update_trailing_stop with the distance taken from the current price
trail_position_pct_of_price(p, current_price) ==
    LET dist100 == current_price * TRAILING_STOP_PERCENT IN
    IF p.side = "BUY"
    THEN IF p.highest_price = NoneVal \/ current_price > p.highest_price
         THEN LET new_stop == current_price * 100 - dist100 IN
              [p EXCEPT !.highest_price = current_price,
                        !.trailing_stop =
                            IF p.trailing_stop = NoneVal \/ new_stop > p.trailing_stop
                            THEN new_stop ELSE p.trailing_stop]
         ELSE p
    ELSE IF p.lowest_price = NoneVal \/ current_price < p.lowest_price
         THEN LET new_stop == current_price * 100 + dist100 IN
              [p EXCEPT !.lowest_price = current_price,
                        !.trailing_stop =
                            IF p.trailing_stop = NoneVal \/ new_stop < p.trailing_stop
                            THEN new_stop ELSE p.trailing_stop]
         ELSE p

trail_position(p, current_price) ==
    LET dist100 == p.entry_price * TRAILING_STOP_PERCENT IN
    IF p.side = "BUY"
    THEN IF p.highest_price = NoneVal \/ current_price > p.highest_price
         THEN LET new_stop == current_price * 100 - dist100 IN
              [p EXCEPT !.highest_price = current_price,
                        !.trailing_stop =
                            IF p.trailing_stop = NoneVal \/ new_stop > p.trailing_stop
                            THEN new_stop ELSE p.trailing_stop]
         ELSE p
    ELSE IF p.lowest_price = NoneVal \/ current_price < p.lowest_price
         THEN LET new_stop == current_price * 100 + dist100 IN
              [p EXCEPT !.lowest_price = current_price,
                        !.trailing_stop =
                            IF p.trailing_stop = NoneVal \/ new_stop < p.trailing_stop
                            THEN new_stop ELSE p.trailing_stop]
         ELSE p

update_trailing_stop(m, symbol, current_price) ==
    IF ~DictHas(m.positions, symbol) THEN m
    ELSE [m EXCEPT !.positions =
              DictSet(m.positions, trail_position(DictGet(m.positions, symbol), current_price))]

\* the reason should_exit reports for a Position already trailed, "" for none
exit_reason_tp_first(p, current_price) ==
    IF p.side = "BUY"
    THEN IF current_price >= p.take_profit THEN "TAKE_PROFIT"
         ELSE IF current_price <= p.stop_loss THEN "STOP_LOSS"
         ELSE IF Truthy(p.trailing_stop) /\ current_price * 100 <= p.trailing_stop
         THEN "TRAILING_STOP"
         ELSE ""
    ELSE IF current_price <= p.take_profit THEN "TAKE_PROFIT"
         ELSE IF current_price >= p.stop_loss THEN "STOP_LOSS"
         ELSE IF Truthy(p.trailing_stop) /\ current_price * 100 >= p.trailing_stop
         THEN "TRAILING_STOP"
         ELSE ""

exit_reason(p, current_price) ==
    IF p.side = "BUY"
    THEN IF current_price <= p.stop_loss THEN "STOP_LOSS"
         ELSE IF Truthy(p.trailing_stop) /\ current_price * 100 <= p.trailing_stop
         THEN "TRAILING_STOP"
         ELSE IF current_price >= p.take_profit THEN "TAKE_PROFIT"
         ELSE ""
    ELSE IF current_price >= p.stop_loss THEN "STOP_LOSS"
         ELSE IF Truthy(p.trailing_stop) /\ current_price * 100 >= p.trailing_stop
         THEN "TRAILING_STOP"
         ELSE IF current_price <= p.take_profit THEN "TAKE_PROFIT"
         ELSE ""

should_exit_never(m, symbol, current_price) ==
    [mm |-> m, exit |-> FALSE, reason |-> ""]

should_exit(m, symbol, current_price) ==
    IF ~DictHas(m.positions, symbol)
    THEN [mm |-> m, exit |-> FALSE, reason |-> ""]
    ELSE LET u == update_trailing_stop(m, symbol, current_price)
             r == exit_reason(DictGet(u.positions, symbol), current_price)
         IN [mm |-> u, exit |-> r # "", reason |-> r]

\* the realized pnl of a position closed at exit_price
position_pnl_long(position, exit_price) ==
    (exit_price - position.entry_price) * position.quantity

position_pnl(position, exit_price) ==
    IF position.side = "BUY"
    THEN (exit_price - position.entry_price) * position.quantity
    ELSE (position.entry_price - exit_price) * position.quantity

\* current_capital after the proceeds of a close
capital_after_close_debit(capital, position, exit_price) ==
    capital - position.quantity * exit_price

capital_after_close(capital, position, exit_price) ==
    capital + position.quantity * exit_price

\* close_position that records the equity also for a symbol without position
close_position_records_absent(m, symbol, exit_price, reason) ==
    IF ~DictHas(m.positions, symbol)
    THEN [mm |-> [m EXCEPT !.equity_curve = Append(m.equity_curve, m.current_capital)],
          pnl |-> 0]
    ELSE LET position == DictGet(m.positions, symbol)
             pnl == position_pnl(position, exit_price)
             capital == capital_after_close(m.current_capital, position, exit_price)
         IN [mm |-> [m EXCEPT
                       !.current_capital = capital,
                       !.daily_pnl = m.daily_pnl + pnl,
                       !.equity_curve = Append(m.equity_curve, capital),
                       !.trade_history = Append(m.trade_history,
                           [symbol |-> symbol, side |-> position.side,
                            quantity |-> position.quantity,
                            entry_price |-> position.entry_price,
                            exit_price |-> exit_price, pnl |-> pnl,
                            reason |-> reason]),
                       !.positions = DictDel(m.positions, symbol)],
             pnl |-> pnl]

close_position(m, symbol, exit_price, reason) ==
    IF ~DictHas(m.positions, symbol) THEN [mm |-> m, pnl |-> 0]
    ELSE LET position == DictGet(m.positions, symbol)
             pnl == position_pnl(position, exit_price)
             capital == capital_after_close(m.current_capital, position, exit_price)
         IN [mm |-> [m EXCEPT
                       !.current_capital = capital,
                       !.daily_pnl = m.daily_pnl + pnl,
                       !.equity_curve = Append(m.equity_curve, capital),
                       !.trade_history = Append(m.trade_history,
                           [symbol |-> symbol, side |-> position.side,
                            quantity |-> position.quantity,
                            entry_price |-> position.entry_price,
                            exit_price |-> exit_price, pnl |-> pnl,
                            reason |-> reason]),
                       !.positions = DictDel(m.positions, symbol)],
             pnl |-> pnl]

\* ---------------------------------------------------------- TradingEngine
\* a SignalEvent: the fields the entry and exit decisions determine
\* sum(...) of a sequence of numbers
RECURSIVE SumSeq(_)
SumSeq(seq) == IF seq = <<>> THEN 0 ELSE Head(seq) + SumSeq(Tail(seq))

\* get_risk_metrics: win rate and profit factor, as quotients num/den;
\* inf: float('inf').  Drawdown and Sharpe ratio are left out.
get_risk_metrics(m) ==
    LET history == m.trade_history
        gross_profit == SumSeq([i \in 1..Len(history) |->
                                   IF history[i].pnl > 0 THEN history[i].pnl ELSE 0])
        loss_sum == SumSeq([i \in 1..Len(history) |->
                               IF history[i].pnl < 0 THEN history[i].pnl ELSE 0])
        gross_loss == IF loss_sum < 0 THEN -loss_sum ELSE loss_sum
        wins == Len(SelectSeq(history, LAMBDA t : t.pnl > 0))
        quotient(n, d) == [inf |-> FALSE, num |-> n, den |-> d]
    IN IF Len(history) = 0
       THEN [win_rate |-> quotient(0, 1), profit_factor |-> quotient(0, 1),
             daily_pnl |-> m.daily_pnl, daily_trades |-> m.daily_trades]
       ELSE [win_rate |-> quotient(wins * 100, Len(history)),
             profit_factor |-> IF gross_loss > 0 THEN quotient(gross_profit, gross_loss)
                               ELSE [inf |-> TRUE, num |-> 0, den |-> 1],
             daily_pnl |-> m.daily_pnl, daily_trades |-> m.daily_trades]

Event(symbol, signal, action, detail) ==
    [symbol |-> symbol, signal |-> signal, action_taken |-> action,
     detail |-> detail]

log_signal_unbounded(log, event) == Append(log, event)

\* _log_signal: the append and the trim to the last max_signal_log_size
log_signal(log, event) ==
    LET a == Append(log, event) IN
    IF Len(a) > max_signal_log_size
    THEN SubSeq(a, Len(a) - max_signal_log_size + 1, Len(a))
    ELSE a

\* Python's seq[-n:] for n >= 0: from index len - n on, and -0 is index 0
SliceFromMinus(seq, n) ==
    LET start == IF n > 0 THEN Max(0, Len(seq) - n) ELSE 0 IN
    SubSeq(seq, start + 1, Len(seq))

\* get_signal_log(symbol, limit); symbol "": None
get_signal_log(log, symbol, limit) ==
    LET logs == IF symbol # "" THEN SelectSeq(log, LAMBDA e : e.symbol = symbol)
                ELSE log
    IN SliceFromMinus(logs, limit)

\* what a per-symbol task is handed: the window fetch_market_data returns
\* ("none": None, "short": fewer than 50 bars, "nan": a window whose last
\* close is NaN, so that ATR[-1] is NaN too), the combined signal of the
\* strategies on it, and whether place_order succeeds (execute_trade returns
\* True).  The simulation (no broker client) is the case where every fetch
\* is "ok" and every order succeeds.
TaskInputs ==
    {[fetch |-> "ok", price |-> w.price, atr |-> w.atr, signal |-> sg, execOK |-> ok] :
        w \in Windows, sg \in {-1, 0, 1}, ok \in BOOLEAN}
    \cup {[fetch |-> f, price |-> 0, atr |-> 0, signal |-> 0, execOK |-> TRUE] :
        f \in {"none", "nan"}}
    \cup {[fetch |-> "short", price |-> c, atr |-> 0, signal |-> 0, execOK |-> TRUE] :
        c \in Prices}

InPositions_never(m, symbol) == FALSE

\* symbol in self.money_manager.positions
InPositions(m, symbol) == DictHas(m.positions, symbol)

\* over: open_position was called for a symbol that held a position;
\* raised: the task ended with an exception
TaskResult(m, log, fetched, exec, over, opened, closed, events) ==
    [mm |-> m, log |-> log, fetched |-> fetched, exec |-> exec, over |-> over,
     opened |-> opened, closed |-> closed, events |-> events, raised |-> FALSE]

\* what the first half of a task leaves in its local variables
Plan(m, plan, reason, quantity) ==
    [mm |-> m, plan |-> plan, reason |-> reason, quantity |-> quantity]

\* process_symbol with the risk limits checked before everything else
process_symbol_check_limits_first(m, symbol, in, date) ==
    IF in.fetch \in {"none", "short"} THEN Plan(m, "return", "", 0)
    ELSE IF in.fetch # "nan" /\ ~can_trade(m, date).allowed
    THEN Plan(can_trade(m, date).mm, "blocked", can_trade(m, date).reason, 0)
    ELSE IF InPositions(m, symbol)
    THEN IF in.fetch = "nan" THEN Plan(m, "keep", "", 0)
         ELSE LET se == should_exit(m, symbol, in.price) IN
              Plan(se.mm, IF se.exit THEN "close" ELSE "keep", se.reason, 0)
    ELSE IF in.fetch = "nan" THEN Plan(m, "raise", "", 0)
    ELSE LET quantity == calculate_position_size(m, in.price, in.atr) IN
         IF in.signal = 0 THEN Plan(m, "hold", "", quantity)
         ELSE IF InPositions(m, symbol) THEN Plan(m, "already", "", quantity)
         ELSE Plan(m, "enter", "", quantity)

\* process_symbol up to its decision: the exit check of a held symbol, or
\* the sizing and the can_trade check of an entry.  Every comparison with a
\* NaN price is false, so should_exit leaves a held position alone;
\* calculate_position_size raises on int(NaN).
process_symbol_check(m, symbol, in, date) ==
    IF in.fetch \in {"none", "short"} THEN Plan(m, "return", "", 0)
    ELSE IF InPositions(m, symbol)
    THEN IF in.fetch = "nan" THEN Plan(m, "keep", "", 0)
         ELSE LET se == should_exit(m, symbol, in.price) IN
              Plan(se.mm, IF se.exit THEN "close" ELSE "keep", se.reason, 0)
    ELSE IF in.fetch = "nan" THEN Plan(m, "raise", "", 0)
    ELSE LET quantity == calculate_position_size(m, in.price, in.atr) IN
         IF in.signal = 0 THEN Plan(m, "hold", "", quantity)
         ELSE LET ct == can_trade(m, date) IN
              IF ~ct.allowed THEN Plan(ct.mm, "blocked", ct.reason, quantity)
              ELSE IF InPositions(ct.mm, symbol) THEN Plan(ct.mm, "already", "", quantity)
              ELSE Plan(ct.mm, "enter", "", quantity)

\* record_trade: the row is added and committed; when that raises, the
\* except clause logs the error and rolls the session back
record_trade_uncaught(up) == [stored |-> up, raised |-> ~up]

record_trade(up) == [stored |-> up, raised |-> FALSE]

\* process_symbol from its decision on: the close or the open, the order,
\* the record of the trade, the signal event
process_symbol_act(m, log, symbol, in, c) ==
    LET side == IF in.signal = 1 THEN "BUY" ELSE "SELL"
        idle(fetched, events) ==
            TaskResult(m, log, fetched, "none", FALSE, FALSE, FALSE, events)
        logged(action, detail) ==
            TaskResult(m, log_signal(log, Event(symbol, in.signal, action, detail)),
                       TRUE, "none", FALSE, FALSE, FALSE, 1)
    IN CASE c.plan = "return" -> idle(FALSE, 0)
         [] c.plan = "keep" -> idle(TRUE, 0)
         [] c.plan = "raise" -> [idle(TRUE, 0) EXCEPT !.raised = TRUE]
         [] c.plan = "close" ->
                LET cp == close_position(m, symbol, in.price, c.reason)
                    exec == IF in.execOK THEN "ok" ELSE "failed"
                IN
                \* execute_trade's result is not looked at
                IF record_trade(db_up).raised
                THEN [TaskResult(cp.mm, log, TRUE, exec, FALSE, FALSE, TRUE, 0)
                         EXCEPT !.raised = TRUE]
                ELSE TaskResult(cp.mm,
                         log_signal(log, Event(symbol, 0, "POSITION_CLOSED", c.reason)),
                         TRUE, exec, FALSE, FALSE, TRUE, 1)
         [] c.plan = "hold" -> logged("HOLD", "")
         [] c.plan = "blocked" -> logged("BLOCKED", c.reason)
         [] c.plan = "already" -> logged("ALREADY_IN_POSITION", "")
         [] c.plan = "enter" ->
                IF in.execOK
                THEN LET op == open_position(m, symbol, side, c.quantity, in.price, in.atr)
                         over == DictHas(m.positions, symbol)
                     IN
                     IF record_trade(db_up).raised
                     THEN [TaskResult(op, log, TRUE, "ok", over, TRUE, FALSE, 0)
                              EXCEPT !.raised = TRUE]
                     ELSE TaskResult(op,
                              log_signal(log, Event(symbol, in.signal, "TRADE_EXECUTED", "")),
                              TRUE, "ok", over, TRUE, FALSE, 1)
                ELSE [logged("EXECUTION_FAILED", "") EXCEPT !.exec = "failed"]

process_symbol(m, log, symbol, in, date) ==
    LET c == process_symbol_check(m, symbol, in, date) IN
    process_symbol_act(c.mm, log, symbol, in, c)

\* stop(): close every open position, in key order, at the price fetched
\* for it (0: the fetch returned None); with the history it adds
RECURSIVE stop_close(_, _, _, _)
stop_close(acc, keys, price, deltas) ==
    IF keys = <<>> THEN acc
    ELSE LET s == Head(keys) IN
         IF price[s] = 0 THEN stop_close(acc, Tail(keys), price, deltas)
         ELSE LET cp == close_position(acc.mm, s, price[s], "ENGINE_STOP") IN
              stop_close(
                  [mm |-> cp.mm,
                   rt |-> Append(acc.rt, deltas[s] + cp.mm.current_capital
                                           - acc.mm.current_capital),
                   realized |-> acc.realized + cp.pnl],
                  Tail(keys), price, deltas)

\* ---------------------------------------------------------------- history
\* what a should_exit call saw and returned
NoExit ==
    [called |-> FALSE, symbol |-> "", price |-> 0, pre |-> NoPosition,
     post |-> NoPosition, exit |-> FALSE, reason |-> ""]

ExitObs(m, symbol, price) ==
    LET se == should_exit(m, symbol, price) IN
    [called |-> TRUE, symbol |-> symbol, price |-> price,
     pre |-> IF DictHas(m.positions, symbol)
             THEN DictGet(m.positions, symbol) ELSE NoPosition,
     post |-> IF DictHas(se.mm.positions, symbol)
              THEN DictGet(se.mm.positions, symbol) ELSE NoPosition,
     exit |-> se.exit, reason |-> se.reason]

NoCT == [called |-> FALSE, allowed |-> FALSE, reason |-> ""]

ZeroCount == [s \in Symbols |-> 0]

\* n: ticks begun so far; ran: tasks of the tick that have ended; raised:
\* one of them ended with an exception
\* fallback: load_active_strategies fell back to its list of three keys
NewTick == [opens |-> ZeroCount, closes |-> ZeroCount, events |-> ZeroCount,
            fetched |-> ZeroCount, n |-> 0, ran |-> 0, raised |-> FALSE,
            fallback |-> FALSE]

NoTask == [symbol |-> "", exec |-> "none", over |-> FALSE]

NewDay == [realized |-> 0, opens |-> 0]

\* no function is called alone
NoCall == [f |-> ""]

\* no per-symbol task holds the event loop
NoRun ==
    [run |-> FALSE,
     in |-> [fetch |-> "none", price |-> 0, atr |-> 0, signal |-> 0, execOK |-> TRUE],
     pre |-> NewMoneyManager(0, 0)]

\* ------------------------------------------------------- the strategies
\* a value of an indicator series: a number, or NaN where the indicator is
\* not defined
Num(v) == [nan |-> FALSE, v |-> v]
NaN == [nan |-> TRUE, v |-> 0]

isna(x) == x.nan

\* comparisons of floats as if NaN were a number
Cmp_ignoring_nan(a, op, b) ==
    CASE op = "<" -> a.v < b.v
      [] op = "<=" -> a.v <= b.v
      [] op = ">" -> a.v > b.v
      [] op = ">=" -> a.v >= b.v
      [] op = "==" -> a.v = b.v

\* comparisons of floats: every comparison with NaN is false
Cmp(a, op, b) ==
    /\ ~a.nan /\ ~b.nan
    /\ CASE op = "<" -> a.v < b.v
         [] op = "<=" -> a.v <= b.v
         [] op = ">" -> a.v > b.v
         [] op = ">=" -> a.v >= b.v
         [] op = "==" -> a.v = b.v

\* The strategies see the last two values, [-2] and [-1], of the series
\* they compute on a window of at least two bars.
\* MovingAverageCrossover.generate_signal (SMA and EMA alike), and
\* MACDStrategy.generate_signal with macd for short and its signal for long
crossover_signal(short2, long2, short1, long1) ==
    IF isna(short1) \/ isna(long1) THEN 0
    ELSE IF Cmp(short2, "<=", long2) /\ Cmp(short1, ">", long1) THEN 1
    ELSE IF Cmp(short2, ">=", long2) /\ Cmp(short1, "<", long1) THEN -1
    ELSE 0

\* RSIMeanReversion.generate_signal
rsi_signal(prev_rsi, current_rsi) ==
    IF isna(current_rsi) THEN 0
    ELSE IF Cmp(current_rsi, "<", Num(RSI_OVERSOLD))
            /\ Cmp(prev_rsi, ">=", Num(RSI_OVERSOLD)) THEN 1
    ELSE IF Cmp(current_rsi, ">", Num(RSI_OVERBOUGHT))
            /\ Cmp(prev_rsi, "<=", Num(RSI_OVERBOUGHT)) THEN -1
    ELSE 0

\* BollingerBandStrategy.generate_signal
bollinger_signal(prev_price, current_price, lower2, lower1, upper2, upper1) ==
    IF isna(upper1) \/ isna(lower1) THEN 0
    ELSE IF Cmp(prev_price, ">=", lower2) /\ Cmp(current_price, "<", lower1) THEN 1
    ELSE IF Cmp(prev_price, "<=", upper2) /\ Cmp(current_price, ">", upper1) THEN -1
    ELSE 0

\* VWAPStrategy.generate_signal on a window with a volume column;
\* threshold: avg_volume.iloc[-1] * volume_threshold
vwap_signal(prev_price, current_price, prev_vwap, current_vwap, volume, threshold) ==
    LET volume_confirmed == Cmp(volume, ">", threshold) IN
    IF isna(current_vwap) THEN 0
    ELSE IF Cmp(prev_price, "<=", prev_vwap) /\ Cmp(current_price, ">", current_vwap)
            /\ volume_confirmed THEN 1
    ELSE IF Cmp(prev_price, ">=", prev_vwap) /\ Cmp(current_price, "<", current_vwap)
    THEN -1
    ELSE 0

\* SuperTrendStrategy.generate_signal, from the last two directions
supertrend_signal(direction2, direction1) ==
    IF isna(direction1) THEN 0
    ELSE IF Cmp(direction2, "==", Num(-1)) /\ Cmp(direction1, "==", Num(1)) THEN 1
    ELSE IF Cmp(direction2, "==", Num(1)) /\ Cmp(direction1, "==", Num(-1)) THEN -1
    ELSE 0

\* StochasticRSIStrategy.generate_signal
stoch_rsi_signal(rsi, slowk) ==
    IF isna(rsi) \/ isna(slowk) THEN 0
    ELSE IF Cmp(rsi, "<", Num(30)) /\ Cmp(slowk, "<", Num(20)) THEN 1
    ELSE IF Cmp(rsi, ">", Num(70)) /\ Cmp(slowk, ">", Num(80)) THEN -1
    ELSE 0

band_breach_same_bar(bars, j) ==
    IF Cmp(bars[j].close, ">", bars[j].upper) THEN 1
    ELSE IF Cmp(bars[j].close, "<", bars[j].lower) THEN -1
    ELSE 0

\* the two tests of calculate_supertrend's loop at bar j (index j - 1):
\* the close against the bands of the bar before
band_breach(bars, j) ==
    IF Cmp(bars[j].close, ">", bars[j - 1].upper) THEN 1
    ELSE IF Cmp(bars[j].close, "<", bars[j - 1].lower) THEN -1
    ELSE 0

\* direction.iloc[j - 1] of calculate_supertrend for a period of n bars:
\* NaN on the first n bars, which the loop leaves out
RECURSIVE supertrend_direction(_, _, _)
supertrend_direction(bars, n, j) ==
    IF j <= n THEN NaN
    ELSE LET breach == band_breach(bars, j) IN
         IF breach # 0 THEN Num(breach)
         ELSE IF j - 1 > n THEN supertrend_direction(bars, n, j - 1)
         ELSE Num(1)

calculate_supertrend(bars, n) ==
    [j \in 1..Len(bars) |-> supertrend_direction(bars, n, j)]

\* strategy.generate_signal(data) for the strategy of a key, x holding the
\* values of its series
generate_signal(name, x) ==
    CASE name \in {"ma_crossover", "ema_crossover", "macd"} ->
             crossover_signal(x.short2, x.long2, x.short1, x.long1)
      [] name = "rsi" -> rsi_signal(x.prev, x.cur)
      [] name = "bollinger" ->
             bollinger_signal(x.price2, x.price1, x.lower2, x.lower1, x.upper2, x.upper1)
      [] name = "vwap" ->
             vwap_signal(x.price2, x.price1, x.vwap2, x.vwap1, x.volume, x.threshold)
      [] name = "supertrend" -> supertrend_signal(x.direction2, x.direction1)
      [] name = "stoch_rsi" -> stoch_rsi_signal(x.rsi, x.slowk)

\* ---------------------------------------------------- the weighted vote
\* MultiStrategyEngine.strategies: the weight of each key, in tenths
Weight ==
    [ma_crossover |-> 10, ema_crossover |-> 10, rsi |-> 8, bollinger |-> 7,
     macd |-> 10, vwap |-> 9, supertrend |-> 12, stoch_rsi |-> 8]

\* A float of the vote is kept as [t, e]: its value is t/10 + e/(10 * 2^56),
\* t the sum in tenths its decimal operands have and e what binary64 adds
\* to it.  The weights 1.0 are binary64 numbers; 0.8, 0.7, 0.9 and 1.2 are
\* the nearest ones:  0.8 = 0x3FE999999999999A, 0.7 = 0x3FE6666666666666,
\* 0.9 = 0x3FECCCCCCCCCCCCD, 1.2 = 0x3FF3333333333333.
WeightErr ==
    [ma_crossover |-> 0, ema_crossover |-> 0, rsi |-> 32, bollinger |-> -32,
     macd |-> 0, vwap |-> 16, supertrend |-> -32, stoch_rsi |-> 32]

Dbl(t, e) == [t |-> t, e |-> e]

RECURSIVE Pow2(_)
Pow2(n) == IF n = 0 THEN 1 ELSE 2 * Pow2(n - 1)

\* 2^n modulo 10, n >= 1
Pow2Mod10(n) ==
    CASE n % 4 = 1 -> 2
      [] n % 4 = 2 -> 4
      [] n % 4 = 3 -> 8
      [] OTHER -> 6

\* the k with 2^k <= t/10 + e/(10 * 2^56) < 2^(k+1), for 1 <= t < 80
Binade(t, e) ==
    IF t > 40 \/ (t = 40 /\ e >= 0) THEN 2
    ELSE IF t > 20 \/ (t = 20 /\ e >= 0) THEN 1
    ELSE IF t > 10 \/ (t = 10 /\ e >= 0) THEN 0
    ELSE IF t > 5 \/ (t = 5 /\ e >= 0) THEN -1
    ELSE IF t >= 3 THEN -2
    ELSE IF t = 2 THEN -3
    ELSE -4

\* round-to-nearest-even of a positive value to a 53-bit significand: the
\* binary64 numbers of binade k are the multiples of 2^(k-52), which is
\* G = 10 * 2^(k+4) in units of 1/(10 * 2^56)
RoundPos(t, e) ==
    LET k == Binade(t, e)
        G == 10 * Pow2(k + 4)
        r == (Pow2(k + 4) * ((t * Pow2Mod10(52 - k)) % 10) + e) % G
        r2 == (Pow2(k + 5) * ((t * Pow2Mod10(51 - k)) % 10) + e) % (2 * G)
    IN IF r = 0 THEN Dbl(t, e)
       ELSE IF 2 * r < G THEN Dbl(t, e - r)
       ELSE IF 2 * r > G THEN Dbl(t, e + G - r)
       ELSE IF r2 < G THEN Dbl(t, e - r)
       ELSE Dbl(t, e + G - r)

\* a difference of binary64 numbers that is below 0.1 in size is exact
Round(t, e) ==
    IF t = 0 THEN Dbl(t, e)
    ELSE IF t > 0 THEN RoundPos(t, e)
    ELSE LET a == RoundPos(-t, -e) IN Dbl(-a.t, -a.e)

\* x + y in binary64
fl_add(x, y) == Round(x.t + y.t, x.e + y.e)

\* signal * weight in binary64: exact, signal being -1, 0 or 1
fl_signal_weight(signal, name) == Dbl(signal * Weight[name], signal * WeightErr[name])

\* weighted_sum / total_weight > 0.3 in binary64, for total_weight > 0.
\* The literal 0.3 is 0x3FD3333333333333 = 3/10 - 4/(10 * 2^55), and the
\* quotient rounds above it when it exceeds the midpoint to the next
\* binary64 number, 3/10 + 6/(10 * 2^55), or equals it (ties go to the even
\* significand, which is the next number's).
fl_div_gt_threshold(ws, tw) ==
    LET d1 == 10 * ws.t - 3 * tw.t
        d2 == 10 * ws.e - 3 * tw.e - 12 * tw.t
    IN IF d1 # 0 THEN d1 > 0
       ELSE IF d2 # 0 THEN d2 > 0
       ELSE tw.e <= 0

\* the loop of get_combined_signal over the active keys, from the i-th on:
\* verdict[i] is what generate_signal returns for active[i], and the
\* strategies at the positions in fails raise instead
RECURSIVE Tally(_, _, _, _, _)
Tally(active, verdict, fails, i, acc) ==
    IF i > Len(active) THEN acc
    ELSE LET name == active[i] IN
         Tally(active, verdict, fails, i + 1,
               IF name \notin DOMAIN Weight THEN acc
               ELSE IF i \in fails
               THEN [acc EXCEPT !.signals = Append(@, [name |-> name, signal |-> 0])]
               ELSE [weighted_sum |-> fl_add(acc.weighted_sum,
                                             fl_signal_weight(verdict[i], name)),
                     total_weight |-> fl_add(acc.total_weight,
                                             fl_signal_weight(1, name)),
                     signals |-> Append(acc.signals,
                                        [name |-> name, signal |-> verdict[i]])])

get_combined_signal(active, verdict, fails) ==
    LET acc == Tally(active, verdict, fails, 1,
                     [weighted_sum |-> Dbl(0, 0), total_weight |-> Dbl(0, 0),
                      signals |-> <<>>])
        ws == acc.weighted_sum
        tw == acc.total_weight
        final_signal ==
            IF tw.t <= 0 THEN 0
            ELSE IF fl_div_gt_threshold(ws, tw) THEN 1
            ELSE IF fl_div_gt_threshold(Dbl(-ws.t, -ws.e), tw) THEN -1
            ELSE 0
    IN [signal |-> final_signal, signals |-> acc.signals]

\* ------------------------------------------------- the active strategies
\* name_map of load_active_strategies, in the order it is searched
Keywords == <<"moving average", "ema crossover", "macd", "stochastic",
              "bollinger", "supertrend", "vwap", "rsi">>

Keys == <<"ma_crossover", "ema_crossover", "macd", "stoch_rsi",
          "bollinger", "supertrend", "vwap", "rsi">>

\* A strategy name is taken as the set of keywords its lower-cased text
\* contains.  The key of a name: that of the first keyword of name_map the
\* name contains ("": none).
NameKey(name) ==
    LET hits == {i \in 1..Len(Keywords) : Keywords[i] \in name} IN
    IF hits = {} THEN ""
    ELSE Keys[CHOOSE i \in hits : \A j \in hits : i <= j]

SeqHas(seq, x) == \E i \in 1..Len(seq) : seq[i] = x

\* the loop over the rows: a key is appended unless it is there already
RECURSIVE MapRows(_, _)
MapRows(rows, acc) ==
    IF rows = <<>> THEN acc
    ELSE LET key == NameKey(Head(rows)) IN
         MapRows(Tail(rows),
                 IF key = "" \/ SeqHas(acc, key) THEN acc ELSE Append(acc, key))

\* load_active_strategies with a session: the keys of the active rows, or,
\* when the query raises, the three keys of the except clause
load_active_strategies(up, rows) ==
    IF up THEN [keys |-> MapRows(rows, <<>>), fallback |-> FALSE]
    ELSE [keys |-> <<"ma_crossover", "rsi", "macd">>, fallback |-> TRUE]

\* the active rows of the strategies table when a tick loads them: the
\* four seeded rows that are active, or all seven seeded rows
SeededRows ==
    {<<{"moving average"}, {"rsi"}, {"macd"}, {"supertrend"}>>,
     <<{"moving average"}, {"rsi"}, {"macd"}, {"bollinger"}, {"vwap"},
       {"supertrend"}, {"stochastic", "rsi"}>>}

\* ------------------------------------------------------------ the scanner
\* a watchlist is config.symbols, any non-empty list; up to renaming the
\* symbols its first entry is "X"
Watchlists ==
    {w \in UNION {[1..n -> Symbols] : n \in 1..MaxWatch} : w[1] = "X"}

\* one engine is followed, the one the variables above describe
EngineGiven ==
    /\ trading_engine = NoneVal
    /\ engine_task = NoneVal
    /\ engines = <<>>

\* start_engine has constructed the engine and is about to create its task
InitWith(capital) ==
    /\ mm = NewMoneyManager(capital, 0)
    /\ today = 0
    /\ marketHours \in BOOLEAN
    /\ is_running = FALSE
    /\ symbols \in Watchlists
    /\ signal_log = <<>>
    /\ loop_count = 0
    /\ pc = "created"
    /\ idx = 0
    /\ task = NoRun
    /\ lastExit = NoExit
    /\ lastCT = NoCT
    /\ lastTask = NoTask
    /\ tick = NewTick
    /\ day = NewDay
    /\ openDelta = ZeroCount
    /\ roundTrip = <<>>
    /\ closing_orders = <<>>
    /\ call = NoCall
    /\ ret = NoCall

Init == InitWith(InitialCapital) /\ db_up = TRUE /\ feed = TaskInputs /\ EngineGiven

\* run_trading_loop up to its first iteration
RunLoop ==
    /\ pc = "created"
    /\ is_running' = TRUE
    /\ pc' = "loop"
    /\ UNCHANGED <<mm, today, marketHours, symbols, signal_log, loop_count,
                   idx, task, lastExit, lastCT, lastTask, tick, day, openDelta,
                   roundTrip, closing_orders,
                   db_up, call, ret, feed, trading_engine, engine_task, engines>>

is_market_hours_always == TRUE

\* is_market_hours(): a weekday, and the time of day within [open, close]
is_market_hours == marketHours

\* an iteration within market hours, up to the gather of the per-symbol
\* tasks; outside market hours an iteration sleeps and starts over
TickBegin ==
    /\ pc = "loop"
    /\ is_running
    /\ is_market_hours
    /\ tick.n < MaxTicks
    /\ pc' = "scan"
    /\ idx' = 1
    /\ \E rows \in SeededRows :
        tick' = [NewTick EXCEPT !.n = tick.n + 1,
                                !.fallback = load_active_strategies(db_up, rows).fallback]
    /\ lastTask' = NoTask
    /\ UNCHANGED <<mm, today, marketHours, is_running, symbols, signal_log,
                   loop_count, task, lastExit, lastCT, day, openDelta, roundTrip,
                   closing_orders,
                   db_up, call, ret, feed, trading_engine, engine_task, engines>>

\* The tasks of a tick run in watchlist order, and a task keeps the event
\* loop until it ends: process_symbol has no suspension point.  A task is
\* taken in two steps, its decision and what it does with it.
ProcessSymbolCheck ==
    /\ pc = "scan"
    /\ idx <= Len(symbols)
    /\ ~task.run
    /\ \E in \in {i \in feed : i.execOK} :
        /\ task' = [run |-> TRUE, in |-> in, pre |-> mm]
        /\ mm' = process_symbol_check(mm, symbols[idx], in, today).mm
    /\ UNCHANGED <<today, marketHours, is_running, symbols, signal_log,
                   loop_count, pc, idx, lastExit, lastCT, lastTask, tick, day,
                   openDelta, roundTrip, closing_orders,
                   db_up, call, ret, feed, trading_engine, engine_task, engines>>

ProcessSymbol ==
    /\ pc = "scan"
    /\ task.run
    /\ \E ok \in BOOLEAN :
        LET s == symbols[idx]
            in == [task.in EXCEPT !.execOK = ok]
            c == process_symbol_check(task.pre, s, in, today)
            r == process_symbol_act(mm, signal_log, s, in, c)
            n(b) == IF b THEN 1 ELSE 0
            delta == r.mm.current_capital - mm.current_capital
            pos == DictGet(task.pre.positions, s)
        IN /\ mm' = r.mm
           /\ signal_log' = r.log
           /\ lastTask' = [symbol |-> s, exec |-> r.exec, over |-> r.over]
           /\ tick' = [opens |-> [tick.opens EXCEPT ![s] = @ + n(r.opened)],
                       closes |-> [tick.closes EXCEPT ![s] = @ + n(r.closed)],
                       events |-> [tick.events EXCEPT ![s] = @ + r.events],
                       fetched |-> [tick.fetched EXCEPT ![s] = @ + n(r.fetched)],
                       n |-> tick.n, ran |-> tick.ran + 1,
                       raised |-> tick.raised \/ r.raised,
                       fallback |-> tick.fallback]
           /\ day' = [realized |-> day.realized
                                   + (IF r.closed
                                      THEN r.mm.trade_history[Len(r.mm.trade_history)].pnl
                                      ELSE 0),
                      opens |-> day.opens + n(r.opened)]
           /\ openDelta' = IF r.opened THEN [openDelta EXCEPT ![s] = delta]
                           ELSE IF r.closed THEN [openDelta EXCEPT ![s] = 0]
                           ELSE openDelta
           /\ roundTrip' = IF r.closed THEN Append(roundTrip, openDelta[s] + delta)
                           ELSE roundTrip
           /\ closing_orders' =
                  IF r.closed
                  THEN Append(closing_orders,
                           [symbol |-> s,
                            side |-> IF pos.side = "BUY" THEN "SELL" ELSE "BUY",
                            quantity |-> pos.quantity])
                  ELSE closing_orders
    /\ idx' = idx + 1
    /\ task' = NoRun
    /\ UNCHANGED <<today, marketHours, is_running, symbols, loop_count, pc,
                   lastExit, lastCT,
                   db_up, call, ret, feed, trading_engine, engine_task, engines>>

\* await asyncio.gather(*tasks) resumes the scanner: every task has ended
GatherDone_first_exception == idx > Len(symbols) \/ tick.raised

GatherDone == idx > Len(symbols)

\* where the scanner goes on after the gather: to the sleep that ends the
\* iteration, also from the except clause when the gather raised
AfterGather_no_except(raised) == IF raised THEN "crashed" ELSE "loop"

AfterGather(raised) == "loop"

\* the gather has returned, or has raised the exception of a task (the other
\* tasks, queued before the scanner's wake-up, have run by then): the rest of
\* the iteration up to its sleep, or the except clause and its sleep
TickEnd ==
    /\ pc = "scan"
    /\ GatherDone
    /\ loop_count' = IF tick.raised THEN loop_count ELSE loop_count + 1
    /\ pc' = AfterGather(tick.raised)
    /\ UNCHANGED <<mm, today, marketHours, is_running, symbols, signal_log,
                   idx, task, lastExit, lastCT, lastTask, tick, day, openDelta,
                   roundTrip, closing_orders,
                   db_up, call, ret, feed, trading_engine, engine_task, engines>>

\* the scanner task is suspended where a request handler can run: in a
\* sleep, or in the gather before the first or after the last task of the
\* tick (the tasks are queued together and run back to back)
ScannerSuspended_anywhere == pc \in {"loop", "scan"}

ScannerSuspended ==
    \/ pc = "loop"
    \/ pc = "scan" /\ ~task.run /\ idx \in {1, Len(symbols) + 1}

\* engine_task.cancel(): the scanner task and the tasks it waits for end
\* where they stand
AfterCancel_none(p) == p

AfterCancel(p) == "stopped"

\* stop_engine: stop(), then the scanner task is cancelled
Stop ==
    /\ ScannerSuspended
    /\ is_running
    /\ \E price \in [Symbols -> StopFetches] :
        LET r == stop_close([mm |-> mm, rt |-> roundTrip, realized |-> day.realized],
                            DictKeys(mm.positions), price, openDelta)
        IN /\ mm' = r.mm
           /\ roundTrip' = r.rt
           /\ day' = [day EXCEPT !.realized = r.realized]
           /\ openDelta' = [s \in Symbols |->
                               IF DictHas(r.mm.positions, s) THEN openDelta[s] ELSE 0]
    /\ is_running' = FALSE
    /\ pc' = AfterCancel(pc)
    /\ UNCHANGED <<today, marketHours, symbols, signal_log, loop_count, idx,
                   task, lastExit, lastCT, lastTask, tick, closing_orders,
                   db_up, call, ret, feed, trading_engine, engine_task, engines>>

\* the market closes and midnight passes while the scanner sleeps
AdvanceDate ==
    /\ pc = "loop"
    /\ today < MaxDate
    /\ today' = today + 1
    /\ marketHours' = FALSE
    /\ day' = NewDay
    /\ UNCHANGED <<mm, is_running, symbols, signal_log, loop_count, pc, idx,
                   task, lastExit, lastCT, lastTask, tick, openDelta, roundTrip,
                   closing_orders,
                   db_up, call, ret, feed, trading_engine, engine_task, engines>>

MarketOpens ==
    /\ pc = "loop"
    /\ ~marketHours
    /\ marketHours' = TRUE
    /\ UNCHANGED <<mm, today, is_running, symbols, signal_log, loop_count, pc,
                   idx, task, lastExit, lastCT, lastTask, tick, day, openDelta,
                   roundTrip, closing_orders,
                   db_up, call, ret, feed, trading_engine, engine_task, engines>>

Next ==
    \/ RunLoop
    \/ TickBegin
    \/ ProcessSymbolCheck
    \/ ProcessSymbol
    \/ TickEnd
    \/ Stop
    \/ AdvanceDate
    \/ MarketOpens

Spec == Init /\ [][Next]_vars

\* The event loop runs every task that is ready and ends every sleep, and
\* the market opens again; stop_engine and midnight need not come.
Fairness ==
    /\ WF_vars(RunLoop)
    /\ WF_vars(TickBegin)
    /\ WF_vars(ProcessSymbolCheck)
    /\ WF_vars(ProcessSymbol)
    /\ WF_vars(TickEnd)
    /\ WF_vars(MarketOpens)

\* the same engine on a two-symbol watchlist, with a feed that brings a
\* window whose volatility is NaN or a full window at one price
FairFeed ==
    {i \in TaskInputs : \/ i.fetch = "nan"
                        \/ /\ i.fetch = "ok"
                           /\ [price |-> i.price, atr |-> i.atr] = [price |-> 10, atr |-> 1]
                           /\ i.signal >= 0}

InitFair ==
    /\ InitWith(InitialCapital)
    /\ symbols = <<"X", "Y">>
    /\ db_up = TRUE
    /\ feed = FairFeed /\ EngineGiven

SpecFair == InitFair /\ [][Next]_vars /\ Fairness

\* the scanner late in a busy day.  The engine and its log after n round
\* trips of "X" on the date 0, each three tasks of process_symbol: a long
\* entry at 10, a window at 12 that sets the trailing stop, a window at 10
\* that exits on it at the entry price
RECURSIVE after_round_trips(_)
after_round_trips(n) ==
    IF n = 0 THEN [mm |-> NewMoneyManager(InitialCapital, 0), log |-> <<>>]
    ELSE LET w(price) == [fetch |-> "ok", price |-> price, atr |-> 1,
                          signal |-> 1, execOK |-> TRUE]
             d == after_round_trips(n - 1)
             a == process_symbol(d.mm, d.log, "X", w(10), 0)
             b == process_symbol(a.mm, a.log, "X", w(12), 0)
             c == process_symbol(b.mm, b.log, "X", w(10), 0)
         IN [mm |-> c.mm, log |-> c.log]

\* the same in closed form: every round trip leaves the capital and the
\* daily pnl as they were and adds the same trade and the same two events
round_trips(n) ==
    [mm |-> [NewMoneyManager(InitialCapital, 0) EXCEPT
                !.daily_trades = n,
                !.trade_history =
                    [i \in 1..n |->
                        [symbol |-> "X", side |-> "BUY", quantity |-> 1,
                         entry_price |-> 10, exit_price |-> 10, pnl |-> 0,
                         reason |-> "TRAILING_STOP"]],
                !.equity_curve = [i \in 1..(n + 1) |-> InitialCapital]],
     log |-> [i \in 1..(2 * n) |->
                 IF i % 2 = 1 THEN Event("X", 1, "TRADE_EXECUTED", "")
                 ELSE Event("X", 0, "POSITION_CLOSED", "TRAILING_STOP")]]

\* full windows at two prices, with every verdict, and orders that succeed
BusyFeed ==
    {i \in TaskInputs : i.fetch = "ok" /\ i.execOK /\ i.atr = 1 /\ i.price >= 10}

\* the ticks still to come, when one open or none is left of the day's trades
InitBusyDay ==
    /\ db_up = TRUE
    /\ round_trips(2) = after_round_trips(2)
    /\ \E n \in {MAX_TRADES_PER_DAY - 1, MAX_TRADES_PER_DAY} :
        /\ mm = round_trips(n).mm
        /\ signal_log = round_trips(n).log
        /\ loop_count = 3 * n
    /\ today = 0
    /\ marketHours \in BOOLEAN
    /\ is_running = TRUE
    /\ symbols \in Watchlists
    /\ pc = "loop"
    /\ idx = 0
    /\ task = NoRun
    /\ lastExit = NoExit
    /\ lastCT = NoCT
    /\ lastTask = NoTask
    /\ tick = NewTick
    /\ day = NewDay
    /\ openDelta = ZeroCount
    /\ roundTrip = <<>>
    /\ closing_orders = <<>>
    /\ call = NoCall
    /\ ret = NoCall
    /\ feed = BusyFeed /\ EngineGiven

\* the loop is in its sleep: the steps of Next after the first
NextBusyDay ==
    \/ TickBegin
    \/ ProcessSymbolCheck
    \/ ProcessSymbol
    \/ TickEnd
    \/ Stop
    \/ AdvanceDate
    \/ MarketOpens

SpecBusyDay == InitBusyDay /\ [][NextBusyDay]_vars

\* the same engine with a database that does not answer
InitDb == InitWith(InitialCapital) /\ db_up = FALSE /\ feed = TaskInputs /\ EngineGiven

SpecDb == InitDb /\ [][Next]_vars

\* the same engine, started with an initial capital that buys a single share
InitSmall == InitWith(SmallCapital) /\ db_up = TRUE /\ feed = TaskInputs /\ EngineGiven

SpecSmall == InitSmall /\ [][Next]_vars

\* ------------------------------------------- the money manager, called alone
\* A caller that holds a MoneyManager and calls its operations one at a
\* time, opening a position only for a symbol that holds none.
InitApi(capital, windows) ==
    /\ mm = NewMoneyManager(capital, 0)
    /\ today = 0
    /\ marketHours = FALSE
    /\ is_running = FALSE
    /\ symbols = <<"X">>
    /\ signal_log = <<>>
    /\ loop_count = 0
    /\ pc = "api"
    /\ idx = 0
    /\ task = NoRun
    /\ lastExit = NoExit
    /\ lastCT = NoCT
    /\ lastTask = NoTask
    /\ tick = NewTick
    /\ day = NewDay
    /\ openDelta = ZeroCount
    /\ roundTrip = <<>>
    /\ closing_orders = <<>>
    /\ call = NoCall
    /\ feed = windows /\ EngineGiven
    /\ ret = NoCall
    /\ db_up = TRUE

InitMM == InitApi(InitialCapital, {})

\* the prices and volatilities the caller passes: those of the windows it
\* is given, else any
CallerPrices == IF feed = {} THEN Prices ELSE {w.price : w \in feed}

CallerAtrs == IF feed = {} THEN Atrs ELSE {w.atr : w \in feed}

ApiOpenPosition ==
    /\ pc = "api"
    /\ mm.daily_trades < MaxOpens
    /\ \E s \in Symbols, side \in {"BUY", "SELL"}, q \in Quantities,
          price \in CallerPrices, atr \in CallerAtrs :
        /\ ~DictHas(mm.positions, s)
        /\ mm' = open_position(mm, s, side, q, price, atr)
        /\ openDelta' = [openDelta EXCEPT ![s] = mm'.current_capital - mm.current_capital]
    /\ day' = [day EXCEPT !.opens = @ + 1]
    /\ lastExit' = NoExit
    /\ UNCHANGED <<today, marketHours, is_running, symbols, signal_log, loop_count,
                   pc, idx, task, lastCT, lastTask, tick, roundTrip,
                   closing_orders,
                   db_up, call, ret, feed, trading_engine, engine_task, engines>>

ApiUpdateTrailingStop ==
    /\ pc = "api"
    /\ \E s \in Symbols, price \in CallerPrices :
        mm' = update_trailing_stop(mm, s, price)
    /\ lastExit' = NoExit
    /\ UNCHANGED <<today, marketHours, is_running, symbols, signal_log, loop_count,
                   pc, idx, task, lastCT, lastTask, tick, day, openDelta, roundTrip,
                   closing_orders,
                   db_up, call, ret, feed, trading_engine, engine_task, engines>>

ApiShouldExit ==
    /\ pc = "api"
    /\ \E s \in Symbols, price \in CallerPrices :
        /\ mm' = should_exit(mm, s, price).mm
        /\ lastExit' = ExitObs(mm, s, price)
    /\ UNCHANGED <<today, marketHours, is_running, symbols, signal_log, loop_count,
                   pc, idx, task, lastCT, lastTask, tick, day, openDelta, roundTrip,
                   closing_orders,
                   db_up, call, ret, feed, trading_engine, engine_task, engines>>

ApiClosePosition ==
    /\ pc = "api"
    /\ \E s \in Symbols, price \in CallerPrices :
        LET cp == close_position(mm, s, price, "EXTERNAL") IN
        /\ DictHas(mm.positions, s)
        /\ mm' = cp.mm
        /\ day' = [day EXCEPT !.realized = @ + cp.pnl]
        /\ roundTrip' = Append(roundTrip, openDelta[s] + cp.mm.current_capital
                                          - mm.current_capital)
        /\ openDelta' = [openDelta EXCEPT ![s] = 0]
    /\ lastExit' = NoExit
    /\ UNCHANGED <<today, marketHours, is_running, symbols, signal_log, loop_count,
                   pc, idx, task, lastCT, lastTask, tick,
                   closing_orders,
                   db_up, call, ret, feed, trading_engine, engine_task, engines>>

NextMM ==
    \/ ApiOpenPosition
    \/ ApiUpdateTrailingStop
    \/ ApiShouldExit
    \/ ApiClosePosition

SpecMM == InitMM /\ [][NextMM]_vars

\* the same caller with the capital for positions entered near 100, and
\* prices in units of a half: 98, 100, 108.5 and 110, volatility 5
TrailFeed ==
    {[fetch |-> "ok", price |-> p, atr |-> 10, signal |-> 0, execOK |-> TRUE] :
        p \in {196, 200, 217, 220}}

InitTrail == InitApi(ExampleCapital, TrailFeed)

SpecTrail == InitTrail /\ [][NextMM]_vars

\* the same caller, who also closes symbols that hold no position and in
\* the end asks for the risk metrics
ApiCloseAbsent ==
    /\ pc = "api"
    /\ \E s \in Symbols, price \in CallerPrices :
        LET cp == close_position(mm, s, price, "EXTERNAL") IN
        /\ ~DictHas(mm.positions, s)
        /\ mm' = cp.mm
        /\ call' = [f |-> "close_position", symbol |-> s, price |-> price]
        /\ ret' = [f |-> "close_position", pnl |-> cp.pnl]
    /\ lastExit' = NoExit
    /\ UNCHANGED <<today, marketHours, is_running, symbols, signal_log, loop_count,
                   pc, idx, task, lastCT, lastTask, tick, day, openDelta, roundTrip,
                   closing_orders, db_up, feed, trading_engine, engine_task, engines>>

ApiGetRiskMetrics ==
    /\ pc = "api"
    /\ call' = [f |-> "get_risk_metrics"]
    /\ ret' = [f |-> "get_risk_metrics", metrics |-> get_risk_metrics(mm)]
    /\ pc' = "returned"
    /\ UNCHANGED <<mm, today, marketHours, is_running, symbols, signal_log,
                   loop_count, idx, task, lastExit, lastCT, lastTask, tick, day,
                   openDelta, roundTrip, closing_orders, db_up, feed, trading_engine, engine_task, engines>>

NextRisk ==
    \/ ApiOpenPosition
    \/ ApiUpdateTrailingStop
    \/ ApiShouldExit
    \/ ApiClosePosition
    \/ ApiCloseAbsent
    \/ ApiGetRiskMetrics

\* the prices this caller passes: two, to win, lose and break even
RiskFeed ==
    {[fetch |-> "ok", price |-> p, atr |-> 1, signal |-> 0, execOK |-> TRUE] :
        p \in {8, 10}}

InitRisk == InitApi(InitialCapital, RiskFeed)

SpecRisk == InitRisk /\ [][NextRisk]_vars

\* ------------------------------------------------------- can_trade, alone
\* can_trade reads initial_capital, daily_pnl, daily_trades and
\* last_reset_date, and the date: these are drawn, around the two limits
DrawPnl ==
    LET limit == (InitialCapital * MAX_DAILY_LOSS_PERCENT) \div 100 IN
    (-limit - 3) .. (-limit + 4)

DrawTrades ==
    {0, MAX_TRADES_PER_DAY - 1, MAX_TRADES_PER_DAY, MAX_TRADES_PER_DAY + 1}

InitCT ==
    /\ \E pnl \in DrawPnl, n \in DrawTrades, d \in 0..MaxDate :
        mm = [NewMoneyManager(InitialCapital, d) EXCEPT
                 !.daily_pnl = pnl, !.daily_trades = n]
    /\ today \in mm.last_reset_date .. MaxDate
    /\ marketHours = FALSE
    /\ is_running = FALSE
    /\ symbols = <<"X">>
    /\ signal_log = <<>>
    /\ loop_count = 0
    /\ pc = "can_trade"
    /\ idx = 0
    /\ task = NoRun
    /\ lastExit = NoExit
    /\ lastCT = NoCT
    /\ lastTask = NoTask
    /\ tick = NewTick
    /\ day = NewDay
    /\ openDelta = ZeroCount
    /\ roundTrip = <<>>
    /\ closing_orders = <<>>
    /\ call = NoCall
    /\ feed = {} /\ EngineGiven
    /\ ret = NoCall
    /\ db_up = TRUE

CanTradeCall ==
    /\ pc = "can_trade"
    /\ LET ct == can_trade(mm, today) IN
        /\ mm' = ct.mm
        /\ lastCT' = [called |-> TRUE, allowed |-> ct.allowed, reason |-> ct.reason]
    /\ pc' = "returned"
    /\ UNCHANGED <<today, marketHours, is_running, symbols, signal_log, loop_count,
                   idx, task, lastExit, lastTask, tick, day, openDelta, roundTrip,
                   closing_orders,
                   db_up, call, ret, feed, trading_engine, engine_task, engines>>

NextCT == CanTradeCall

SpecCanTrade == InitCT /\ [][NextCT]_vars

\* ------------------------------------------------------------------ claims
TickDone == pc = "scan" /\ idx > Len(symbols)

\* C1 (as claimed): in a tick the scanner opens at most one position for a
\* symbol, and never both closes and opens a position for the same symbol.
C1_OneOpenAndNoExitWithEntry ==
    \A s \in Symbols :
        /\ tick.opens[s] <= 1
        /\ ~(tick.opens[s] >= 1 /\ tick.closes[s] >= 1)

\* C2: a symbol has at most one open position, there are at most as many
\* open positions as watchlist entries, and the scanner never calls
\* open_position for a symbol that holds a position.
C2_OnePositionPerSymbol ==
    /\ \A i, j \in 1..Len(mm.positions) :
          mm.positions[i].symbol = mm.positions[j].symbol => i = j
    /\ Len(mm.positions) <= Len(symbols)
    /\ ~lastTask.over

\* C2 witness: with every watchlist entry holding a position, the task of X
\* fetched its window, met X's position and neither opened nor closed.
C2_Witness ==
    /\ Len(mm.positions) = 2
    /\ DictHas(mm.positions, "X")
    /\ tick.fetched["X"] >= 1
    /\ tick.opens["X"] = 0
    /\ tick.closes["X"] = 0

\* C3 (as claimed): for every closed trade, on either side, the capital
\* change of its open plus that of its close is its realized pnl, and every
\* close adds one entry to the equity curve.
C3_RoundTripIsPnl ==
    /\ \A i \in 1..Len(mm.trade_history) : roundTrip[i] = mm.trade_history[i].pnl
    /\ Len(mm.equity_curve) = Len(mm.trade_history) + 1

\* C4 (as claimed): a per-symbol task whose order (entry or closing) failed
\* leaves the money manager as it was, up to the daily reset of can_trade.
C4_FailedOrderLeavesState ==
    [][(pc = "scan" /\ idx' = idx + 1 /\ lastTask'.exec = "failed")
          => mm' \in {mm, reset_daily_stats(mm, today)}]_vars

\* can_trade would now return false with the daily-loss reason
LossBlocked == can_trade(mm, today).reason = "DAILY_LOSS"

\* C5 (as claimed): once can_trade returns false for the daily loss limit,
\* it returns false for the rest of that date, whatever closes in between.
C5_LossLimitLatches ==
    [][(LossBlocked /\ today' = today) => LossBlocked']_vars

C7_CountersAreOfToday ==
    mm.last_reset_date = today =>
        /\ mm.daily_pnl = day.realized
        /\ mm.daily_trades = day.opens

\* C8: should_exit applies update_trailing_stop with the price, then reports
\* the first triggered condition in the order STOP_LOSS, TRAILING_STOP,
\* TAKE_PROFIT; (false, "") when none triggers or there is no position.
C8_ExitPriority ==
    lastExit.called =>
        LET p == lastExit.post
            c == lastExit.price
            long == p.side = "BUY"
            sl == IF long THEN c <= p.stop_loss ELSE c >= p.stop_loss
            ts == /\ p.trailing_stop # NoneVal
                  /\ IF long THEN c * 100 <= p.trailing_stop
                     ELSE c * 100 >= p.trailing_stop
            tp == IF long THEN c >= p.take_profit ELSE c <= p.take_profit
        IN IF lastExit.pre = NoPosition
           THEN ~lastExit.exit /\ lastExit.reason = "" /\ p = NoPosition
           ELSE /\ p = trail_position(lastExit.pre, c)
                /\ lastExit.exit = (sl \/ ts \/ tp)
                /\ lastExit.reason =
                       IF sl THEN "STOP_LOSS"
                       ELSE IF ts THEN "TRAILING_STOP"
                       ELSE IF tp THEN "TAKE_PROFIT"
                       ELSE ""

\* C8 witness: should_exit reported TRAILING_STOP at a price that also
\* reached the take-profit.
C8_Witness ==
    /\ lastExit.called
    /\ lastExit.reason = "TRAILING_STOP"
    /\ lastExit.post.side = "BUY"
    /\ lastExit.price >= lastExit.post.take_profit

\* C9: over the calls on an open position the trailing stop, once set, never
\* loosens (never decreases for a LONG, never increases for a SHORT), and
\* highest_price never decreases, lowest_price never increases.
C9_TrailingStopMonotone ==
    [][\A s \in Symbols :
          (DictHas(mm.positions, s) /\ DictHas(mm'.positions, s)) =>
              LET p == DictGet(mm.positions, s)
                  q == DictGet(mm'.positions, s)
              IN IF p.side = "BUY"
                 THEN /\ q.highest_price >= p.highest_price
                      /\ p.trailing_stop # NoneVal =>
                            (q.trailing_stop # NoneVal /\ q.trailing_stop >= p.trailing_stop)
                 ELSE /\ q.lowest_price <= p.lowest_price
                      /\ p.trailing_stop # NoneVal =>
                            (q.trailing_stop # NoneVal /\ q.trailing_stop <= p.trailing_stop)]_vars

\* C9 witness: a LONG whose trailing stop is set has been through a
\* should_exit call with a price below its highest price.
C9_Witness ==
    /\ lastExit.called
    /\ lastExit.pre # NoPosition
    /\ lastExit.pre.side = "BUY"
    /\ lastExit.pre.trailing_stop # NoneVal
    /\ lastExit.price < lastExit.pre.highest_price
    /\ DictHas(mm.positions, lastExit.symbol)

\* C10 (as claimed): at the end of a tick, every symbol whose window was
\* fetched with at least 50 bars has exactly one signal event of that tick.
C10_OneEventPerSymbolPerTick ==
    TickDone => \A s \in Symbols : tick.fetched[s] >= 1 => tick.events[s] = 1

\* C11 (as claimed): every open position has quantity >= 1; a size of 0
\* opens no position.
C11_PositionsHaveQuantity ==
    \A i \in 1..Len(mm.positions) : mm.positions[i].quantity >= 1

\* C12 (as claimed): a position the scanner opens with ATR a has its
\* stop-loss 2a on the losing side of the entry price and its take-profit 4a
\* on the winning side, both strictly off the entry price.
C12_StopsBracketEntry ==
    [][\A s \in Symbols :
          (task.run /\ ~DictHas(mm.positions, s) /\ DictHas(mm'.positions, s)) =>
              LET p == DictGet(mm'.positions, s)
                  a == task.in.atr
              IN IF p.side = "BUY"
                 THEN /\ p.stop_loss < p.entry_price
                      /\ p.entry_price < p.take_profit
                      /\ p.entry_price - p.stop_loss = 2 * a
                      /\ p.take_profit - p.entry_price = 4 * a
                 ELSE /\ p.take_profit < p.entry_price
                      /\ p.entry_price < p.stop_loss
                      /\ p.stop_loss - p.entry_price = 2 * a
                      /\ p.entry_price - p.take_profit = 4 * a]_vars

\* the sum over the open positions of quantity * entry_price
RECURSIVE Committed(_)
Committed(d) ==
    IF d = <<>> THEN 0
    ELSE Head(d).quantity * Head(d).entry_price + Committed(Tail(d))

\* C13: in every reachable state of the scanner, current_capital plus the
\* sum over the open positions of quantity * entry_price is at least 0.
C13_CapitalPlusCommitted ==
    mm.current_capital + Committed(mm.positions) >= 0

\* C13 witness: after a realized loss, with a position of at least one share
\* open, capital plus committed is below the initial capital.
C13_Witness ==
    /\ mm.trade_history # <<>>
    /\ mm.trade_history[Len(mm.trade_history)].pnl < 0
    /\ mm.positions # <<>>
    /\ mm.positions[1].quantity >= 1
    /\ mm.current_capital + Committed(mm.positions) < mm.initial_capital

\* C14: close_position on an open position returns (exit - entry) * quantity
\* for a LONG and (entry - exit) * quantity for a SHORT, adds quantity *
\* exit_price to current_capital and the pnl to daily_pnl, appends one trade
\* record and one equity snapshot equal to the new capital, removes the
\* position, and leaves daily_trades and every other position as they were.
C14_ClosePositionContract ==
    [][Len(mm'.trade_history) = Len(mm.trade_history) + 1 =>
          LET t == mm'.trade_history[Len(mm'.trade_history)]
              p == DictGet(mm.positions, t.symbol)
              returned == day'.realized - day.realized
          IN /\ DictHas(mm.positions, t.symbol)
             /\ returned = IF p.side = "BUY"
                           THEN (t.exit_price - p.entry_price) * p.quantity
                           ELSE (p.entry_price - t.exit_price) * p.quantity
             /\ t = [symbol |-> p.symbol, side |-> p.side, quantity |-> p.quantity,
                     entry_price |-> p.entry_price, exit_price |-> t.exit_price,
                     pnl |-> returned, reason |-> t.reason]
             /\ mm'.trade_history = Append(mm.trade_history, t)
             /\ mm'.current_capital = mm.current_capital + p.quantity * t.exit_price
             /\ mm'.daily_pnl = mm.daily_pnl + returned
             /\ mm'.equity_curve = Append(mm.equity_curve, mm'.current_capital)
             /\ ~DictHas(mm'.positions, t.symbol)
             /\ Len(mm'.positions) = Len(mm.positions) - 1
             /\ \A i \in 1..Len(mm.positions) :
                   mm.positions[i].symbol # t.symbol =>
                       /\ DictHas(mm'.positions, mm.positions[i].symbol)
                       /\ DictGet(mm'.positions, mm.positions[i].symbol) = mm.positions[i]
             /\ mm'.daily_trades = mm.daily_trades
             /\ mm'.initial_capital = mm.initial_capital
             /\ mm'.last_reset_date = mm.last_reset_date]_vars

\* C14 witness: a SHORT was closed at a price other than its entry price
\* while another position stayed open.
C14_Witness ==
    /\ mm.trade_history # <<>>
    /\ mm.trade_history[Len(mm.trade_history)].side = "SELL"
    /\ mm.trade_history[Len(mm.trade_history)].pnl # 0
    /\ mm.positions # <<>>
    /\ Len(mm.equity_curve) = Len(mm.trade_history) + 1

\* C15 (as claimed): after stop has returned, running is false and no open
\* position remains, every closed one having an ENGINE_STOP trade record.
C15_StopClosesEverything ==
    pc = "stopped" => (~is_running /\ mm.positions = <<>>)

\* C16 (as claimed): every position closed with reason ENGINE_STOP has its
\* closing order (opposite side, the position's quantity) handed to
\* execute_trade, as every close of the scanner has.
C16_StopSubmitsClosingOrders ==
    \A i \in 1..Len(mm.trade_history) :
        mm.trade_history[i].reason = "ENGINE_STOP" =>
            /\ i <= Len(closing_orders)
            /\ closing_orders[i] =
                   [symbol |-> mm.trade_history[i].symbol,
                    side |-> IF mm.trade_history[i].side = "BUY" THEN "SELL" ELSE "BUY",
                    quantity |-> mm.trade_history[i].quantity]

\* C17: once stop has set running to false the scanner has ended: it begins
\* no tick, runs no per-symbol task, submits no order, opens or closes no
\* position and logs nothing.
C17_NothingRunsAfterStop ==
    /\ []((pc # "created" /\ ~is_running) => pc = "stopped")
    /\ [][(pc # "created" /\ ~is_running) =>
             UNCHANGED <<mm, signal_log, loop_count, pc, idx, task, tick,
                         closing_orders>>]_vars

\* C17 witness: stop came while the scanner waited for the tasks of a tick,
\* none of which had run, with a position open from an earlier tick.
C17_Witness ==
    /\ pc = "stopped"
    /\ ~is_running
    /\ tick.n >= 2
    /\ tick.ran = 0
    /\ idx = 1
    /\ mm.daily_trades >= 1

\* C18: between the decision of a per-symbol task (should_exit, or
\* calculate_position_size and can_trade) and what it does with it
\* (close_position, open_position) no other task and no stop runs: the money
\* manager is as the decision left it, and the next step is the task's own.
C18_TasksAreSerialized ==
    /\ [](task.run =>
             /\ pc = "scan"
             /\ idx <= Len(symbols)
             /\ mm = process_symbol_check(task.pre, symbols[idx], task.in, today).mm)
    /\ [][task.run =>
             /\ ~task'.run
             /\ idx' = idx + 1
             /\ \E ok \in BOOLEAN :
                   mm' = process_symbol(task.pre, signal_log, symbols[idx],
                                        [task.in EXCEPT !.execOK = ok], today).mm]_vars

\* C18 witness: a task has decided to enter while another symbol holds a
\* position, and has not yet opened.
C18_Witness ==
    /\ task.run
    /\ process_symbol_check(task.pre, symbols[idx], task.in, today).plan = "enter"
    /\ mm.positions # <<>>
    /\ ~DictHas(mm.positions, symbols[idx])

\* C19: a tick begins only when every per-symbol task of the previous tick
\* has ended, also when one of them raised; within a tick the tasks that
\* have ended are those before the one that runs next.
C19_NoTickOverlap ==
    /\ [](pc = "scan" => idx = tick.ran + 1)
    /\ [][(pc = "loop" /\ pc' = "scan") =>
             /\ ~task.run
             /\ tick.n >= 1 => tick.ran = Len(symbols)]_vars

\* C19 witness: a tick of two tasks has begun after a tick one of whose
\* tasks raised (that tick was not counted in loop_count).
C19_Witness ==
    /\ pc = "scan"
    /\ tick.n = 2
    /\ loop_count = 0
    /\ Len(symbols) = 2
    /\ tick.ran = 1

\* what a task of symbols[idx] that met the position p, with a window whose
\* last close is c, must leave: no position if an exit condition of p is
\* triggered at c, else p trailed by c; and no entry
ExitCheckedAt(p, c) ==
    LET s == symbols[idx]
        q == trail_position(p, c)
    IN /\ IF exit_reason(q, c) # ""
          THEN /\ ~DictHas(mm'.positions, s)
               /\ mm'.trade_history # mm.trade_history
               /\ mm'.trade_history[Len(mm'.trade_history)].symbol = s
               /\ mm'.trade_history[Len(mm'.trade_history)].exit_price = c
               /\ mm'.trade_history[Len(mm'.trade_history)].reason = exit_reason(q, c)
          ELSE /\ DictHas(mm'.positions, s)
               /\ DictGet(mm'.positions, s) = q
       /\ mm'.daily_trades = task.pre.daily_trades

\* C20 (as claimed): a task whose symbol holds a position and whose window
\* is fetched, of whatever length, checks the exit at the window's last close
\* before any entry logic, and closes the position if an exit is triggered.
C20_ExitCheckedOnAnyWindow ==
    [][(task.run /\ ~task'.run /\ DictHas(task.pre.positions, symbols[idx])
          /\ task.in.fetch \in {"ok", "short"}) =>
             ExitCheckedAt(DictGet(task.pre.positions, symbols[idx]), task.in.price)]_vars

\* C20 (amended): a task whose symbol holds a position and whose window is
\* fetched with at least 50 bars checks the exit at the window's last close
\* before any entry logic, and closes the position in that tick if an exit
\* is triggered; a window with a NaN last close triggers nothing and leaves
\* the position as it is.  A shorter window skips the symbol, exit check
\* included.
C20_ExitCheckedOnFullWindow ==
    [][(task.run /\ ~task'.run /\ DictHas(task.pre.positions, symbols[idx])) =>
          LET p == DictGet(task.pre.positions, symbols[idx]) IN
          /\ task.in.fetch = "ok" => ExitCheckedAt(p, task.in.price)
          /\ task.in.fetch # "ok" =>
                /\ DictHas(mm'.positions, symbols[idx])
                /\ DictGet(mm'.positions, symbols[idx]) = p
                /\ mm'.daily_trades = task.pre.daily_trades]_vars

\* C20 witness: a position open at the start of the second tick was closed
\* in that tick, and its symbol was not entered again.
C20_Witness ==
    \E s \in Symbols :
        /\ tick.n = 2
        /\ tick.closes[s] = 1
        /\ tick.opens[s] = 0
        /\ tick.fetched[s] = 1
        /\ ~DictHas(mm.positions, s)

\* ------------------------------------------------ functions called alone
\* an engine that is not running, and one call with its arguments drawn
InitCall(calls, logs, capitals) ==
    /\ mm \in {NewMoneyManager(c, 0) : c \in capitals}
    /\ today = 0
    /\ marketHours = FALSE
    /\ is_running = FALSE
    /\ symbols = <<"X">>
    /\ signal_log \in logs
    /\ loop_count = 0
    /\ pc = "call"
    /\ idx = 0
    /\ task = NoRun
    /\ lastExit = NoExit
    /\ lastCT = NoCT
    /\ lastTask = NoTask
    /\ tick = NewTick
    /\ day = NewDay
    /\ openDelta = ZeroCount
    /\ roundTrip = <<>>
    /\ closing_orders = <<>>
    /\ db_up = TRUE
    /\ feed = {} /\ EngineGiven
    /\ call \in calls
    /\ ret = NoCall

\* the keys the vote is called with
VoteKeys == {"ma_crossover", "ema_crossover", "rsi", "macd", "supertrend"}

\* lists of distinct keys, as load_active_strategies builds them
ActiveLists ==
    {a \in UNION {[1..n -> VoteKeys] : n \in 0..MaxActive} :
        \A i, j \in 1..Len(a) : a[i] = a[j] => i = j}

\* a call of get_combined_signal: the active keys, the verdict of each
\* strategy, and the positions of the strategies that raise (at most one)
VoteCalls ==
    {[f |-> "get_combined_signal", active |-> a, verdict |-> v, fails |-> fs] :
        a \in ActiveLists, v \in UNION {[1..n -> {-1, 0, 1}] : n \in 0..MaxActive},
        fs \in {{}} \cup {{i} : i \in 1..MaxActive}}

InitVote ==
    InitCall({c \in VoteCalls :
                 /\ Len(c.verdict) = Len(c.active)
                 /\ \A i \in c.fails : i <= Len(c.active) /\ c.verdict[i] = 0},
             {<<>>}, {InitialCapital})

GetCombinedSignal ==
    /\ pc = "call"
    /\ call.f = "get_combined_signal"
    /\ LET r == get_combined_signal(call.active, call.verdict, call.fails) IN
        ret' = [f |-> call.f, signal |-> r.signal, signals |-> r.signals]
    /\ pc' = "returned"
    /\ UNCHANGED <<mm, today, marketHours, is_running, symbols, signal_log,
                   loop_count, idx, task, lastExit, lastCT, lastTask, tick, day,
                   openDelta, roundTrip, closing_orders, db_up, call, feed, trading_engine, engine_task, engines>>

NextVote == GetCombinedSignal

SpecVote == InitVote /\ [][NextVote]_vars

\* the events a task can log for a symbol that holds no position
LoggedEvents ==
    {Event(s, sg, IF sg = 0 THEN "HOLD" ELSE "EXECUTION_FAILED", "") :
        s \in Symbols, sg \in {0, 1}}

\* a log of n events, none evicted yet
LogOf(n) ==
    [i \in 1..n |-> Event(IF i % 2 = 0 THEN "X" ELSE "Y", (i % 3) - 1,
                            IF i % 3 = 1 THEN "HOLD" ELSE "EXECUTION_FAILED", "")]

\* signal logs that are empty or within two events of their capacity; the
\* call keeps every event appended so far and counts the calls
InitLog ==
    /\ InitCall({[f |-> "_log_signal", appended |-> LogOf(n), n |-> 0] :
                    n \in {0} \cup ((max_signal_log_size - 2)..max_signal_log_size)},
                {LogOf(n) : n \in 0..max_signal_log_size}, {InitialCapital})
    /\ signal_log = call.appended

LogSignal ==
    /\ pc = "call"
    /\ call.f = "_log_signal"
    /\ call.n < MaxAppends
    /\ \E e \in LoggedEvents :
        /\ signal_log' = log_signal(signal_log, e)
        /\ call' = [call EXCEPT !.appended = Append(@, e), !.n = @ + 1]
        /\ ret' = [f |-> call.f, event |-> e]
    /\ UNCHANGED <<mm, today, marketHours, is_running, symbols, loop_count, pc,
                   idx, task, lastExit, lastCT, lastTask, tick, day, openDelta,
                   roundTrip, closing_orders, db_up, feed, trading_engine, engine_task, engines>>

NextLog == LogSignal

SpecLog == InitLog /\ [][NextLog]_vars

\* a short signal log and a query of it
SmallLogs == UNION {[1..n -> LoggedEvents] : n \in 0..MaxLogged}

InitQuery ==
    InitCall({[f |-> "get_signal_log", symbol |-> s, limit |-> l] :
                 s \in Symbols \cup {""}, l \in 0..MaxLimit},
             SmallLogs, {InitialCapital})

GetSignalLog ==
    /\ pc = "call"
    /\ call.f = "get_signal_log"
    /\ ret' = [f |-> call.f,
               events |-> get_signal_log(signal_log, call.symbol, call.limit)]
    /\ pc' = "returned"
    /\ UNCHANGED <<mm, today, marketHours, is_running, symbols, signal_log,
                   loop_count, idx, task, lastExit, lastCT, lastTask, tick, day,
                   openDelta, roundTrip, closing_orders, db_up, call, feed, trading_engine, engine_task, engines>>

NextQuery == GetSignalLog

SpecQuery == InitQuery /\ [][NextQuery]_vars

\* a money manager with some capital and no position, asked for the size
\* of an entry; 100000, 100 and 10 are the capital, price and ATR of the
\* documented example
SizeCapitals == (0..MaxSizeCapital) \cup {100000}

InitSize ==
    /\ InitCall({[f |-> "calculate_position_size", capital |-> c, price |-> p,
                  atr |-> a] :
                    c \in SizeCapitals, p \in Prices \cup {100}, a \in Atrs \cup {10}},
                {<<>>}, SizeCapitals)
    /\ mm.current_capital = call.capital

CalculatePositionSize ==
    /\ pc = "call"
    /\ call.f = "calculate_position_size"
    /\ ret' = [f |-> call.f,
               shares |-> calculate_position_size(mm, call.price, call.atr)]
    /\ pc' = "returned"
    /\ UNCHANGED <<mm, today, marketHours, is_running, symbols, signal_log,
                   loop_count, idx, task, lastExit, lastCT, lastTask, tick, day,
                   openDelta, roundTrip, closing_orders, db_up, call, feed, trading_engine, engine_task, engines>>

\* the entry of process_symbol with the size returned
OpenSized ==
    /\ pc = "returned"
    /\ ret.f = "calculate_position_size"
    /\ \E side \in {"BUY", "SELL"} :
        mm' = open_position(mm, symbols[1], side, ret.shares, call.price, call.atr)
    /\ pc' = "opened"
    /\ UNCHANGED <<today, marketHours, is_running, symbols, signal_log,
                   loop_count, idx, task, lastExit, lastCT, lastTask, tick, day,
                   openDelta, roundTrip, closing_orders, db_up, call, ret, feed, trading_engine, engine_task, engines>>

NextSize ==
    \/ CalculatePositionSize
    \/ OpenSized

SpecSize == InitSize /\ [][NextSize]_vars

\* the values the series of a strategy are drawn from; the two Bollinger
\* bands of a bar are defined together
Levels == {NaN} \cup {Num(v) : v \in 1..MaxLevel}
Oscillations == {NaN} \cup {Num(v) : v \in {10, 20, 30, 50, 70, 80, 90}}
Directions == {NaN, Num(-1), Num(1)}

SignalCalls ==
    {[f |-> "generate_signal", strategy |-> k,
      x |-> [short2 |-> a, long2 |-> b, short1 |-> c, long1 |-> d]] :
        k \in {"ma_crossover", "ema_crossover", "macd"},
        a \in Levels, b \in Levels, c \in Levels, d \in Levels}
    \cup {[f |-> "generate_signal", strategy |-> "rsi", x |-> [prev |-> a, cur |-> b]] :
        a \in Oscillations, b \in Oscillations}
    \cup {[f |-> "generate_signal", strategy |-> "bollinger",
           x |-> [price2 |-> p, price1 |-> q, lower2 |-> b.l2, lower1 |-> b.l1,
                  upper2 |-> b.u2, upper1 |-> b.u1]] :
        p \in Levels \ {NaN}, q \in Levels \ {NaN},
        b \in {c \in [l2 : Levels, l1 : Levels, u2 : Levels, u1 : Levels] :
                   isna(c.l2) = isna(c.u2) /\ isna(c.l1) = isna(c.u1)}}
    \cup {[f |-> "generate_signal", strategy |-> "vwap",
           x |-> [price2 |-> p, price1 |-> q, vwap2 |-> a, vwap1 |-> b,
                  volume |-> Num(2), threshold |-> c]] :
        p \in Levels \ {NaN}, q \in Levels \ {NaN},
        a \in Levels, b \in Levels, c \in Levels}
    \cup {[f |-> "generate_signal", strategy |-> "supertrend",
           x |-> [direction2 |-> a, direction1 |-> b]] :
        a \in Directions, b \in Directions}
    \cup {[f |-> "generate_signal", strategy |-> "stoch_rsi",
           x |-> [rsi |-> a, slowk |-> b]] :
        a \in Oscillations, b \in Oscillations}

InitSignal == InitCall(SignalCalls, {<<>>}, {InitialCapital})

GenerateSignal ==
    /\ pc = "call"
    /\ call.f = "generate_signal"
    /\ ret' = [f |-> call.f, verdict |-> generate_signal(call.strategy, call.x)]
    /\ pc' = "returned"
    /\ UNCHANGED <<mm, today, marketHours, is_running, symbols, signal_log,
                   loop_count, idx, task, lastExit, lastCT, lastTask, tick, day,
                   openDelta, roundTrip, closing_orders, db_up, call, feed, trading_engine, engine_task, engines>>

NextSignal == GenerateSignal

SpecSignal == InitSignal /\ [][NextSignal]_vars

\* windows for the SuperTrend: per bar the close and the two bands, which
\* are NaN on the first bars, where the ATR is, and lower <= upper after
BarsAt(j, n) ==
    IF j <= n
    THEN {[close |-> c, upper |-> NaN, lower |-> NaN] : c \in Levels \ {NaN}}
    ELSE {[close |-> c, upper |-> band[2], lower |-> band[1]] :
             c \in Levels \ {NaN},
             band \in {q \in (Levels \ {NaN}) \X (Levels \ {NaN}) : q[1].v <= q[2].v}}

RECURSIVE WindowsOf(_, _)
WindowsOf(len, n) ==
    IF len = 0 THEN {<<>>}
    ELSE {Append(w, b) : w \in WindowsOf(len - 1, n), b \in BarsAt(len, n)}

SuperTrendBars(n) == UNION {WindowsOf(len, n) : len \in (n + 1)..MaxBars}

InitSuperTrend ==
    InitCall({[f |-> "calculate_supertrend", bars |-> b, period |-> SuperTrendPeriod] :
                 b \in SuperTrendBars(SuperTrendPeriod)},
             {<<>>}, {InitialCapital})

SuperTrendSignal ==
    /\ pc = "call"
    /\ call.f = "calculate_supertrend"
    /\ LET direction == calculate_supertrend(call.bars, call.period)
           len == Len(direction)
       IN ret' = [f |-> call.f, direction |-> direction,
                  verdict |-> supertrend_signal(direction[len - 1], direction[len])]
    /\ pc' = "returned"
    /\ UNCHANGED <<mm, today, marketHours, is_running, symbols, signal_log,
                   loop_count, idx, task, lastExit, lastCT, lastTask, tick, day,
                   openDelta, roundTrip, closing_orders, db_up, call, feed, trading_engine, engine_task, engines>>

NextSuperTrend == SuperTrendSignal

SpecSuperTrend == InitSuperTrend /\ [][NextSuperTrend]_vars

\* the keywords the names of the drawn rows are made of
RowKeywords == {"moving average", "ema crossover", "macd", "stochastic", "rsi"}

\* strategy names, created through the API with any text
RowNames == {n \in SUBSET RowKeywords : Cardinality(n) <= MaxKeywords}

InitLoad ==
    InitCall({[f |-> "load_active_strategies", rows |-> r] :
                 r \in UNION {[1..n -> RowNames] : n \in 0..MaxRows}},
             {<<>>}, {InitialCapital})

LoadActiveStrategies ==
    /\ pc = "call"
    /\ call.f = "load_active_strategies"
    /\ ret' = [f |-> call.f, keys |-> load_active_strategies(db_up, call.rows).keys]
    /\ pc' = "returned"
    /\ UNCHANGED <<mm, today, marketHours, is_running, symbols, signal_log,
                   loop_count, idx, task, lastExit, lastCT, lastTask, tick, day,
                   openDelta, roundTrip, closing_orders, db_up, call, feed, trading_engine, engine_task, engines>>

NextLoad == LoadActiveStrategies

SpecLoad == InitLoad /\ [][NextLoad]_vars

\* ------------------------------------------- start_engine and stop_engine
\* the process after startup: no engine, no task
InitEngines == InitCall({NoCall}, {<<>>}, {InitialCapital})

\* TradingEngine.__init__ and the task create_task made for it, not yet run
NewEngine == [is_running |-> FALSE, pc |-> "created", loop_count |-> 0]

\* the check of start_engine and stop_engine on the globals
engine_running ==
    trading_engine # NoneVal /\ engines[trading_engine].is_running

\* POST /api/engine/start: the body has no await and runs in one step
StartEngine ==
    /\ pc = "call"
    /\ \E found \in BOOLEAN :
        IF engine_running
        THEN /\ ret' = [f |-> "start_engine", status |-> 400]
             /\ UNCHANGED <<trading_engine, engine_task, engines>>
        ELSE IF ~found
        THEN /\ ret' = [f |-> "start_engine", status |-> 404]
             /\ UNCHANGED <<trading_engine, engine_task, engines>>
        ELSE /\ Len(engines) < MaxEngines
             /\ engines' = Append(engines, NewEngine)
             /\ trading_engine' = Len(engines) + 1
             /\ engine_task' = Len(engines) + 1
             /\ ret' = [f |-> "start_engine", status |-> 200]
    /\ UNCHANGED <<mm, today, marketHours, is_running, symbols, signal_log,
                   loop_count, pc, idx, task, lastExit, lastCT, lastTask, tick,
                   day, openDelta, roundTrip, closing_orders, db_up, call, feed>>

\* the first step of an engine's task: run_trading_loop up to its first
\* suspension, which sets is_running
EngineRunLoop ==
    /\ \E e \in 1..Len(engines) :
        /\ engines[e].pc = "created"
        /\ engines' = [engines EXCEPT ![e].is_running = TRUE, ![e].pc = "loop"]
    /\ UNCHANGED <<mm, today, marketHours, is_running, symbols, signal_log,
                   loop_count, pc, idx, task, lastExit, lastCT, lastTask, tick,
                   day, openDelta, roundTrip, closing_orders, db_up, call, ret,
                   feed, trading_engine, engine_task>>

\* an engine's task wakes up: one more scan while is_running, else the loop
\* and the task end
EngineScan ==
    /\ \E e \in 1..Len(engines) :
        /\ engines[e].pc = "loop"
        /\ IF engines[e].is_running
           THEN /\ engines[e].loop_count < MaxTicks
                /\ engines' = [engines EXCEPT ![e].loop_count = @ + 1]
           ELSE engines' = [engines EXCEPT ![e].pc = "done"]
    /\ UNCHANGED <<mm, today, marketHours, is_running, symbols, signal_log,
                   loop_count, pc, idx, task, lastExit, lastCT, lastTask, tick,
                   day, openDelta, roundTrip, closing_orders, db_up, call, ret,
                   feed, trading_engine, engine_task>>

\* POST /api/engine/stop: stop() on the global engine, cancel() on the
\* global task
StopEngine ==
    /\ pc = "call"
    /\ IF ~engine_running
       THEN /\ ret' = [f |-> "stop_engine", status |-> 400]
            /\ UNCHANGED <<trading_engine, engine_task, engines>>
       ELSE /\ engines' =
                LET stopped == [engines EXCEPT ![trading_engine].is_running = FALSE]
                IN IF engine_task # NoneVal /\ stopped[engine_task].pc \in {"created", "loop"}
                   THEN [stopped EXCEPT ![engine_task].pc = "cancelled"]
                   ELSE stopped
            /\ engine_task' = NoneVal
            /\ ret' = [f |-> "stop_engine", status |-> 200]
            /\ UNCHANGED trading_engine
    /\ UNCHANGED <<mm, today, marketHours, is_running, symbols, signal_log,
                   loop_count, pc, idx, task, lastExit, lastCT, lastTask, tick,
                   day, openDelta, roundTrip, closing_orders, db_up, call, feed>>

NextEngines ==
    \/ StartEngine
    \/ EngineRunLoop
    \/ EngineScan
    \/ StopEngine

SpecEngines == InitEngines /\ [][NextEngines]_vars

\* C21: a task with a non-zero verdict for a symbol without a position, to
\* which can_trade answers false, submits no order and opens no position;
\* it appends one signal event, BLOCKED with the denial reason, and leaves
\* positions, current_capital, trade_history and equity_curve as they were.
C21_BlockedEntryChangesNothing ==
    [][(task.run /\ ~task'.run /\ task.in.fetch = "ok" /\ task.in.signal # 0
          /\ ~DictHas(task.pre.positions, symbols[idx])) =>
          LET r == reset_daily_stats(task.pre, today)
              loss == r.daily_pnl * 100 < -(r.initial_capital * MAX_DAILY_LOSS_PERCENT)
              maxed == r.daily_trades >= MAX_TRADES_PER_DAY
          IN (loss \/ maxed) =>
                /\ mm' = r
                /\ lastTask'.exec = "none"
                /\ closing_orders' = closing_orders
                /\ Len(signal_log') = Len(signal_log) + 1
                /\ signal_log'[Len(signal_log')] =
                       Event(symbols[idx], task.in.signal, "BLOCKED",
                             IF loss THEN "DAILY_LOSS" ELSE "MAX_TRADES")
                /\ tick'.events[symbols[idx]] = tick.events[symbols[idx]] + 1]_vars

\* C21 witness: the last task, within the date of the loss, was denied for
\* the daily loss and logged it; its symbol holds no position.
C21_Witness ==
    /\ signal_log # <<>>
    /\ signal_log[Len(signal_log)].action_taken = "BLOCKED"
    /\ signal_log[Len(signal_log)].detail = "DAILY_LOSS"
    /\ lastTask.symbol = signal_log[Len(signal_log)].symbol
    /\ ~DictHas(mm.positions, lastTask.symbol)
    /\ mm.daily_pnl * 100 < -(mm.initial_capital * MAX_DAILY_LOSS_PERCENT)

\* C22: a task that raises changes nothing and ends alone: the other tasks
\* of the tick still run, the scanner stays alive while running is true, and
\* unless the engine is stopped a later tick begins.
C22_ExceptionAbortsOneSymbol ==
    /\ [](is_running => pc \in {"loop", "scan"})
    /\ [][(task.run /\ ~task'.run /\ task.in.fetch = "nan"
             /\ ~DictHas(task.pre.positions, symbols[idx])) =>
             /\ tick'.raised
             /\ mm' = task.pre
             /\ signal_log' = signal_log
             /\ closing_orders' = closing_orders
             /\ pc' = "scan"
             /\ idx' = idx + 1]_vars
    /\ (pc = "scan" /\ tick.raised) ~> (tick.ran = Len(symbols) \/ ~is_running)
    /\ \A k \in 1..(MaxTicks - 1) :
          (tick.n = k /\ tick.raised) ~> (tick.n = k + 1 \/ ~is_running)

\* C22 witness: in a tick whose first task raised, the second task opened a
\* position.
C22_Witness ==
    /\ pc = "scan"
    /\ tick.raised
    /\ tick.ran = 2
    /\ \E s \in Symbols : tick.opens[s] = 1
    /\ is_running

\* C23: a failure of the persistence port never aborts the tick and never
\* changes money-manager state.  With the database down, the tick that
\* loads the strategy names goes on to its scan with the fallback keys and
\* an untouched money manager; a task that opens or closes a position
\* leaves the money manager as open_position or close_position made it,
\* appends its signal event, ends without an exception and hands over to
\* the next task of the tick.
C23_PersistenceFailureIsAbsorbed ==
    /\ [][(~db_up /\ pc = "loop" /\ pc' = "scan") =>
             /\ tick'.fallback /\ ~tick'.raised /\ idx' = 1
             /\ mm' = mm /\ signal_log' = signal_log]_vars
    /\ [][(~db_up /\ task.run /\ ~task'.run) =>
             LET s == symbols[idx]
                 in == task.in
                 side == IF in.signal = 1 THEN "BUY" ELSE "SELL"
                 held == DictHas(mm.positions, s)
                 holds == DictHas(mm'.positions, s)
                 last == signal_log'[Len(signal_log')]
             IN /\ (tick'.raised /\ ~tick.raised) => in.fetch = "nan"
                /\ pc' = "scan" /\ idx' = idx + 1
                /\ (~held /\ holds) =>
                      /\ mm' = open_position(mm, s, side,
                                   calculate_position_size(task.pre, in.price, in.atr),
                                   in.price, in.atr)
                      /\ signal_log' = Append(signal_log, last)
                      /\ last.symbol = s /\ last.action_taken = "TRADE_EXECUTED"
                /\ (held /\ ~holds) =>
                      /\ mm' = close_position(mm, s, in.price,
                                   should_exit(task.pre, s, in.price).reason).mm
                      /\ signal_log' = Append(signal_log, last)
                      /\ last.symbol = s /\ last.action_taken = "POSITION_CLOSED"]_vars

\* with the database down a tick has loaded the fallback keys, its first
\* task has closed a position and logged it, and the second task has run
C23_Witness ==
    /\ ~db_up /\ pc = "scan" /\ tick.fallback /\ ~tick.raised
    /\ Len(symbols) = 2 /\ tick.ran = 2
    /\ tick.closes[symbols[1]] = 1 /\ tick.events[symbols[1]] = 1
    /\ tick.opens[symbols[2]] = 1 /\ tick.events[symbols[2]] = 1
\* C24: while the clock is outside market hours the scanner processes no
\* symbol: as long as the engine is not stopped, no step changes the money
\* manager, the signal log, the orders submitted, loop_count or the tick
\* and task counters; the scanner stays in its loop until the market opens.
C24_NothingOutsideMarketHours ==
    [][(pc = "loop" /\ is_running /\ ~marketHours /\ is_running') =>
          /\ pc' = "loop"
          /\ UNCHANGED <<mm, signal_log, closing_orders, loop_count, tick,
                         idx, task, roundTrip>>]_vars

\* the market has closed on a running engine that holds a position after a
\* completed tick
C24_Witness ==
    /\ pc = "loop" /\ is_running /\ ~marketHours
    /\ loop_count >= 1 /\ tick.n >= 1 /\ today >= 1
    /\ mm.positions # <<>>
\* the sums of the vote in tenths, without rounding
RECURSIVE SumTenths(_, _, _)
SumTenths(active, verdict, i) ==
    IF i > Len(active) THEN [ws |-> 0, tw |-> 0]
    ELSE LET rest == SumTenths(active, verdict, i + 1) IN
         [ws |-> rest.ws + verdict[i] * Weight[active[i]],
          tw |-> rest.tw + Weight[active[i]]]

\* +1 when the weighted average is above 0.30, -1 when it is below -0.30
ThresholdVote(active, verdict) ==
    LET s == SumTenths(active, verdict, 1) IN
    IF s.tw = 0 THEN 0
    ELSE IF 10 * s.ws > 3 * s.tw THEN 1
    ELSE IF 10 * s.ws < -(3 * s.tw) THEN -1
    ELSE 0

\* C25: when no strategy fails, get_combined_signal returns +1 exactly when
\* the weighted average of the verdicts is above 0.30, -1 exactly when it
\* is below -0.30 and 0 otherwise, an average of exactly 0.30 or -0.30 and
\* an empty active list giving 0.
C25_VoteFollowsThreshold ==
    (pc = "returned" /\ ret.f = "get_combined_signal" /\ call.fails = {}) =>
        ret.signal = ThresholdVote(call.active, call.verdict)

\* C26: a strategy that fails is recorded with verdict 0 and the combined
\* verdict is the one the call returns when that strategy returns 0.
C26_FailureCountsAsZero ==
    (pc = "returned" /\ ret.f = "get_combined_signal" /\ call.fails # {}) =>
        /\ \A i \in call.fails : ret.signals[i].signal = 0
        /\ ret.signal = get_combined_signal(call.active, call.verdict, {}).signal
\* the last n elements of a sequence, all of it when it has fewer
LastN(seq, n) == SubSeq(seq, Len(seq) - Min(n, Len(seq)) + 1, Len(seq))

C28_QueryReturnsLastLimit ==
    (pc = "returned" /\ ret.f = "get_signal_log") =>
        LET matching == IF call.symbol = "" THEN signal_log
                        ELSE SelectSeq(signal_log, LAMBDA e : e.symbol = call.symbol)
        IN /\ ret.events = LastN(matching, call.limit)
           /\ Len(ret.events) <= call.limit
\* the keys a single row with this name is mapped to
KeysOfName(name) == load_active_strategies(TRUE, <<name>>).keys

\* the first row a key comes from
FirstRowOf(rows, key) ==
    CHOOSE i \in 1..Len(rows) :
        /\ KeysOfName(rows[i]) = <<key>>
        /\ \A j \in 1..(i - 1) : KeysOfName(rows[j]) # <<key>>

\* C29: the more specific keyword wins: a name with the EMA-crossover or
\* the MACD keyword and the moving-average keyword maps to ema_crossover or
\* macd, a name with the stochastic and the rsi keyword to stoch_rsi; a
\* name yields at most one key, and the key list has no duplicates and is
\* in the order of the first rows the keys come from.
C29_SpecificKeywordWins ==
    (pc = "returned" /\ ret.f = "load_active_strategies") =>
        LET rows == call.rows
            keys == ret.keys
        IN /\ \A i \in 1..Len(rows) :
                 /\ Len(KeysOfName(rows[i])) <= 1
                 /\ rows[i] = {"ema crossover", "moving average"} =>
                        KeysOfName(rows[i]) = <<"ema_crossover">>
                 /\ rows[i] = {"macd", "moving average"} =>
                        KeysOfName(rows[i]) = <<"macd">>
                 /\ rows[i] = {"stochastic", "rsi"} =>
                        KeysOfName(rows[i]) = <<"stoch_rsi">>
           /\ \A i, j \in 1..Len(keys) : keys[i] = keys[j] => i = j
           /\ {keys[i] : i \in 1..Len(keys)} =
                 UNION {{KeysOfName(rows[i])[j] : j \in 1..Len(KeysOfName(rows[i]))} :
                           i \in 1..Len(rows)}
           /\ \A i, j \in 1..Len(keys) :
                 i < j => FirstRowOf(rows, keys[i]) < FirstRowOf(rows, keys[j])
\* C30: for price > 0 and capital >= 0, calculate_position_size returns
\* min(max(1, floor(risk_amount / stop_distance)), floor(capital / price)),
\* risk_amount being 2% of the capital and stop_distance 2 * atr if atr > 0,
\* else 1.5% of the price, and leaves the money manager as it was; with
\* capital 100000, price 100 and atr 10 it returns 100, and the long
\* position then opened has its stop at 80 and its target at 140.
C30_PositionSizeFormula ==
    (call.f = "calculate_position_size" /\ pc # "call") =>
        LET capital == call.capital
            by_risk == IF call.atr > 0
                       THEN (capital * 2) \div (100 * 2 * call.atr)
                       ELSE (capital * 2 * 1000) \div (100 * call.price * 15)
            by_capital == capital \div call.price
            example == capital = 100000 /\ call.price = 100 /\ call.atr = 10
        IN /\ ret.shares = Min(Max(1, by_risk), by_capital)
           /\ pc = "returned" => mm = NewMoneyManager(capital, 0)
           /\ example => ret.shares = 100
           /\ (pc = "opened" /\ example /\ mm.positions[1].side = "BUY") =>
                 /\ mm.positions[1].quantity = 100
                 /\ mm.positions[1].stop_loss = 80
                 /\ mm.positions[1].take_profit = 140

\* the example: a long position of 100 shares opened at 100 with ATR 10
C30_Witness ==
    /\ pc = "opened" /\ call.f = "calculate_position_size"
    /\ call.capital = 100000 /\ call.price = 100 /\ call.atr = 10
    /\ mm.positions[1].side = "BUY" /\ mm.positions[1].quantity = 100
\* C31: get_risk_metrics reports profit_factor = gross_profit/|gross_loss|
\* when gross_loss is not 0, infinity when gross_loss is 0 and gross_profit
\* is positive, and 0 when both are 0, whatever the trade history.
C31_ProfitFactor ==
    (pc = "returned" /\ ret.f = "get_risk_metrics") =>
        LET pnls == [i \in 1..Len(mm.trade_history) |-> mm.trade_history[i].pnl]
            gross_profit == SumSeq(SelectSeq(pnls, LAMBDA p : p > 0))
            gross_loss == -SumSeq(SelectSeq(pnls, LAMBDA p : p < 0))
            pf == ret.metrics.profit_factor
        IN /\ gross_loss # 0 => ~pf.inf /\ pf.num * gross_loss = gross_profit * pf.den
           /\ (gross_loss = 0 /\ gross_profit > 0) => pf.inf
           /\ (gross_loss = 0 /\ gross_profit = 0) => ~pf.inf /\ pf.num = 0
\* the series values a strategy needs for its verdict; the average volume
\* of the VWAP strategy is needed for a buy only
NeededValues(name, x) ==
    CASE name \in {"ma_crossover", "ema_crossover", "macd"} ->
             {x.short2, x.long2, x.short1, x.long1}
      [] name = "rsi" -> {x.prev, x.cur}
      [] name = "bollinger" -> {x.lower2, x.lower1, x.upper2, x.upper1}
      [] name = "vwap" -> {x.vwap2, x.vwap1}
      [] name = "supertrend" -> {x.direction2, x.direction1}
      [] name = "stoch_rsi" -> {x.rsi, x.slowk}

\* C32: every strategy returns a verdict in {-1, 0, 1}, and returns 0
\* whenever a value of an indicator it needs is undefined on the last or
\* on the second-to-last bar.
C32_UndefinedIndicatorGivesZero ==
    (pc = "returned" /\ ret.f = "generate_signal") =>
        /\ ret.verdict \in {-1, 0, 1}
        /\ NaN \in NeededValues(call.strategy, call.x) => ret.verdict = 0
        /\ (call.strategy = "vwap" /\ isna(call.x.threshold)) => ret.verdict # 1

\* a crossover was asked for its verdict with both averages defined on the
\* last bar and one undefined on the bar before
C32_Witness ==
    /\ pc = "returned" /\ ret.f = "generate_signal"
    /\ call.strategy = "ma_crossover"
    /\ call.x.long2 = NaN /\ call.x.short2 = Num(1)
    /\ call.x.short1 = Num(3) /\ call.x.long1 = Num(2)
    /\ ret.verdict = 0
\* C33: over the bars after the first n, the SuperTrend direction is +1
\* when the close is above the upper band of the bar before, -1 when it is
\* below the lower band of the bar before, else the direction of the bar
\* before, +1 on the first of these bars; so it changes only on a bar whose
\* close breaches a band of the bar before.  The strategy returns +1
\* exactly on a flip from -1 to +1 at the last bar, -1 exactly on the
\* opposite flip.
C33_SuperTrendDirection ==
    (pc = "returned" /\ ret.f = "calculate_supertrend") =>
        LET bars == call.bars
            n == call.period
            len == Len(bars)
            d == ret.direction
            above(j) == ~isna(bars[j - 1].upper) /\ bars[j].close.v > bars[j - 1].upper.v
            below(j) == ~isna(bars[j - 1].lower) /\ bars[j].close.v < bars[j - 1].lower.v
        IN /\ \A j \in (n + 1)..len :
                 d[j] = IF above(j) THEN Num(1)
                        ELSE IF below(j) THEN Num(-1)
                        ELSE IF j = n + 1 THEN Num(1)
                        ELSE d[j - 1]
           /\ \A j \in (n + 2)..len : d[j] # d[j - 1] => above(j) \/ below(j)
           /\ ret.verdict = 1 <=> (d[len - 1] = Num(-1) /\ d[len] = Num(1))
           /\ ret.verdict = -1 <=> (d[len - 1] = Num(1) /\ d[len] = Num(-1))
           /\ ret.verdict \in {-1, 0, 1}

\* the direction went down and came back up on the last bar
C33_Witness ==
    /\ pc = "returned" /\ ret.f = "calculate_supertrend"
    /\ Len(ret.direction) = 4
    /\ ret.direction[2] = Num(1) /\ ret.direction[3] = Num(-1)
    /\ ret.direction[4] = Num(1) /\ ret.verdict = 1

\* C34: at any time at most one scanner loop is active: start_engine is
\* rejected while an engine is running, two start requests never both
\* create a scanner task, whatever the order of the requests and the first
\* step of the first task, and after stop_engine the stopped scanner runs
\* no further scan, before or after a new one is started.
ActiveScanners == {e \in 1..Len(engines) : engines[e].pc \in {"created", "loop"}}

C34_AtMostOneScanner ==
    /\ [](Cardinality(ActiveScanners) <= 1)
    /\ [][(engine_running /\ ret'.f = "start_engine" /\ ret' # ret) =>
            (ret'.status = 400 /\ engines' = engines)]_vars
    /\ [][\A e \in 1..Len(engines) :
            (engines[e].pc # "created" /\ ~engines[e].is_running) =>
                engines'[e].loop_count = engines[e].loop_count]_vars

\* C35 (as claimed): while can_trade is false, for the daily loss or the
\* daily trades, a task whose symbol holds a position and whose window is
\* fetched, of whatever length, still evaluates should_exit and closes the
\* position when stop-loss, trailing stop or take-profit is triggered.
C35_DenialBlocksEntriesOnly ==
    [][(task.run /\ ~task'.run /\ DictHas(task.pre.positions, symbols[idx])
          /\ ~can_trade(task.pre, today).allowed
          /\ task.in.fetch \in {"ok", "short"}) =>
             ExitCheckedAt(DictGet(task.pre.positions, symbols[idx]), task.in.price)]_vars

\* C35 (amended): while can_trade is false, a task whose symbol holds a
\* position and whose window is fetched with at least 50 bars still
\* evaluates should_exit at the window's last close and closes the position
\* when stop-loss, trailing stop or take-profit is triggered; the denial
\* touches entries only.  A shorter window skips the symbol, exit included.
C35_DenialBlocksEntriesOnFullWindow ==
    [][(task.run /\ ~task'.run /\ DictHas(task.pre.positions, symbols[idx])
          /\ ~can_trade(task.pre, today).allowed) =>
          LET p == DictGet(task.pre.positions, symbols[idx]) IN
          /\ task.in.fetch = "ok" => ExitCheckedAt(p, task.in.price)
          /\ task.in.fetch = "short" =>
                /\ DictHas(mm'.positions, symbols[idx])
                /\ DictGet(mm'.positions, symbols[idx]) = p]_vars

\* C35 witness: the last task closed the position of its symbol on an exit
\* condition although the daily loss already denied entries before it.
C35_Witness ==
    /\ lastTask.symbol # ""
    /\ tick.closes[lastTask.symbol] = 1
    /\ mm.trade_history # <<>>
    /\ mm.last_reset_date = today
    /\ LET t == mm.trade_history[Len(mm.trade_history)] IN
         /\ t.symbol = lastTask.symbol
         /\ t.reason \in {"STOP_LOSS", "TRAILING_STOP", "TAKE_PROFIT"}
         /\ (mm.daily_pnl - t.pnl) * 100 < -(mm.initial_capital * MAX_DAILY_LOSS_PERCENT)

\* C36: in every state of the scanner daily_trades is at most
\* MAX_TRADES_PER_DAY: a task that opens a position does so after can_trade
\* answered true in the same task, the open adds exactly 1 to daily_trades,
\* and the close, the exit check and the trailing of a held position, and
\* the closes of stop(), leave daily_trades as it is.
C36_DailyTradesWithinLimit ==
    /\ [](mm.daily_trades <= MAX_TRADES_PER_DAY)
    /\ [][(task.run /\ ~task'.run) =>
            LET s == symbols[idx]
                ct == can_trade(task.pre, today)
            IN IF tick'.opens[s] > tick.opens[s]
               THEN /\ ct.allowed
                    /\ ~DictHas(task.pre.positions, s)
                    /\ mm'.daily_trades = ct.mm.daily_trades + 1
               ELSE /\ DictHas(task.pre.positions, s) =>
                        mm'.daily_trades = task.pre.daily_trades
                    /\ mm'.daily_trades \in {task.pre.daily_trades, ct.mm.daily_trades}]_vars
    /\ [][(is_running /\ ~is_running') => mm'.daily_trades = mm.daily_trades]_vars

\* C36 witness: the fiftieth position of the day was opened in this tick,
\* and the task after it was denied for the number of trades
C36_Witness ==
    /\ mm.daily_trades = MAX_TRADES_PER_DAY
    /\ day.opens = 1
    /\ \E s \in Symbols : tick.opens[s] = 1 /\ DictHas(mm.positions, s)
    /\ signal_log[Len(signal_log)].action_taken = "BLOCKED"
    /\ signal_log[Len(signal_log)].detail = "MAX_TRADES"

\* C37: a LONG position has highest_price >= entry_price, and its
\* trailing_stop is unset as long as no price above the entry was observed
\* and is highest_price - entry_price * TRAILING_STOP_PERCENT / 100 from then
\* on (a SHORT: lowest_price <= entry_price, lowest_price plus that
\* distance).  A LONG entered at 100 that observed 110 has its trailing stop
\* at 109 and exits with TRAILING_STOP at 108.5.  Quantity, entry price,
\* stop-loss and take-profit of a position never change while it is open.
TrailingDistance100(p) == p.entry_price * TRAILING_STOP_PERCENT

C37_TrailingStopFollowsExtreme ==
    /\ [](\A s \in Symbols : DictHas(mm.positions, s) =>
            LET p == DictGet(mm.positions, s) IN
            IF p.side = "BUY"
            THEN /\ p.highest_price >= p.entry_price
                 /\ p.trailing_stop = NoneVal <=> p.highest_price = p.entry_price
                 /\ p.trailing_stop # NoneVal =>
                        p.trailing_stop = p.highest_price * 100 - TrailingDistance100(p)
            ELSE /\ p.lowest_price <= p.entry_price
                 /\ p.trailing_stop = NoneVal <=> p.lowest_price = p.entry_price
                 /\ p.trailing_stop # NoneVal =>
                        p.trailing_stop = p.lowest_price * 100 + TrailingDistance100(p))
    /\ []((lastExit.called /\ lastExit.pre # NoPosition /\ lastExit.pre.side = "BUY"
             /\ lastExit.pre.entry_price = 200 /\ lastExit.pre.highest_price = 220
             /\ lastExit.price = 217) =>
                /\ lastExit.pre.trailing_stop = 21800
                /\ lastExit.exit
                /\ lastExit.reason = "TRAILING_STOP")
    /\ [][\A s \in Symbols :
            (DictHas(mm.positions, s) /\ DictHas(mm'.positions, s)) =>
                LET p == DictGet(mm.positions, s)
                    q == DictGet(mm'.positions, s)
                IN /\ q.quantity = p.quantity
                   /\ q.entry_price = p.entry_price
                   /\ q.side = p.side
                   /\ q.stop_loss = p.stop_loss
                   /\ q.take_profit = p.take_profit]_vars

\* C37 witness: should_exit at 108.5 on a LONG entered at 100 that had
\* observed 110 answered TRAILING_STOP
C37_Witness ==
    /\ lastExit.called
    /\ lastExit.pre # NoPosition
    /\ lastExit.pre.side = "BUY"
    /\ lastExit.pre.entry_price = 200
    /\ lastExit.pre.highest_price = 220
    /\ lastExit.pre.trailing_stop = 21800
    /\ lastExit.price = 217
    /\ lastExit.reason = "TRAILING_STOP"

\* C38: trade_history and equity_curve only grow at their end, and
\* len(equity_curve) = len(trade_history) + 1 with initial_capital first;
\* a step extends them only by closing a position that was open, by one
\* trade and the capital after it; close_position for a symbol without a
\* position returns 0 and changes nothing.
IsPrefix(a, b) == Len(a) <= Len(b) /\ SubSeq(b, 1, Len(a)) = a

C38_HistoryAppendOnly ==
    /\ [](/\ Len(mm.equity_curve) = Len(mm.trade_history) + 1
          /\ mm.equity_curve[1] = mm.initial_capital)
    /\ [][/\ IsPrefix(mm.trade_history, mm'.trade_history)
          /\ IsPrefix(mm.equity_curve, mm'.equity_curve)
          /\ (mm'.trade_history # mm.trade_history \/ mm'.equity_curve # mm.equity_curve) =>
                /\ Len(mm'.trade_history) = Len(mm.trade_history) + 1
                /\ mm'.equity_curve[Len(mm'.equity_curve)] = mm'.current_capital
                /\ LET t == mm'.trade_history[Len(mm'.trade_history)] IN
                     /\ DictHas(mm.positions, t.symbol)
                     /\ ~DictHas(mm'.positions, t.symbol)
                     /\ t.entry_price = DictGet(mm.positions, t.symbol).entry_price]_vars
    /\ [][(call' # call /\ call'.f = "close_position") =>
            (~DictHas(mm.positions, call'.symbol) /\ ret'.pnl = 0 /\ mm' = mm)]_vars

\* C38 witness: after a trade was closed, close_position was called for a
\* symbol without a position and returned 0
C38_Witness ==
    /\ call.f = "close_position"
    /\ ret.f = "close_position"
    /\ ret.pnl = 0
    /\ Len(mm.trade_history) >= 1
    /\ Len(mm.equity_curve) = Len(mm.trade_history) + 1

\* C39: a size s >= 1 returned by calculate_position_size risks at most the
\* maximum risk per trade up to the stop: s * stop_distance <=
\* current_capital * MAX_POSITION_SIZE_PERCENT / 100, stop_distance being
\* 2 * atr, or price * STOP_LOSS_PERCENT / 100 when atr <= 0.
C39_SizeRisksAtMostTheLimit ==
    (pc = "returned" /\ ret.f = "calculate_position_size" /\ ret.shares >= 1) =>
        IF call.atr > 0
        THEN ret.shares * (2 * call.atr) * 100
                <= call.capital * MAX_POSITION_SIZE_PERCENT
        ELSE ret.shares * (call.price * STOP_LOSS_PERMILLE) * 100
                <= call.capital * MAX_POSITION_SIZE_PERCENT * 1000

====
